---- MODULE Spec2Model ----
(***************************************************************************)
(* A model of the gaji workflow compiler: the QuickJS execution bridge     *)
(* (executor.rs), the compilation driver (builder.rs, main.rs) and the     *)
(* build cache (cache.rs).                                                 *)
(*                                                                         *)
(* Text is modelled as a sequence of tokens.  A token is either one of the *)
(* white-space characters "\n", "\r", " " or an atom that contains no      *)
(* white space.                                                            *)
(***************************************************************************)
EXTENDS Integers, Sequences, FiniteSets, TLC

(***************************************************************************)
(* Bounds of the model.                                                    *)
(***************************************************************************)
\* the largest number of statements of one script
MaxCalls == 2

\* the latest value of the clock
MaxTime == 1

\* the largest length of the text that follows the header of an output file
MaxBody == 4

\* the largest length of a new YAML text in a change check
MaxNew == 3

\* longest time to live, in days, that a caller of is_expired passes
MaxDays == 1

\* the deepest nesting of containers around an expression of a script
MaxDepth == 1

\* the largest number of generation runs over one output directory
MaxRuns == 2

\* the largest number of results the file watcher sends into the channel
MaxEvents == 3

\* the last instant of the watcher's clock, in milliseconds
MaxInstant == 600

\* the largest length of an action reference handed to ActionRef::parse
MaxRefLen == 5

\* the largest number of times the build command is run again
MaxRebuilds == 1

\* the largest number of add calls on the step builders of one Job
MaxAdds == 3

\* the largest number of steps() calls on one Job
MaxStepsCalls == 2

(***************************************************************************)
(* Scripts (the bundled JavaScript handed to execute_js).                  *)
(***************************************************************************)
\* the kind argument of __gha_build was omitted
NoKind == "<omitted>"

Ids == {"a", "b"}

\* JSON texts that scripts pass to __gha_build (JSON.stringify of a builder)
JsonFull == "{\"on\":{},\"jobs\":{}}"
JsonNoOn == "{\"name\":\"CI\",\"jobs\":{}}"
JsonNoJobs == "{\"on\":{}}"
JsonArray == "[\"item\"]"
JsonEmpty == "{}"
JsonInvalid == "not valid json"

SandboxJson == {JsonFull, JsonNoOn, JsonNoJobs, JsonArray}

KindArgs == {"workflow", "action", NoKind}

BuildStmt(id, json, kind) == [op |-> "build", id |-> id, json |-> json, kind |-> kind]

ThrowStmt == [op |-> "throw", id |-> "", json |-> "", kind |-> NoKind]

Stmts == {BuildStmt(id, json, kind) : id \in Ids, json \in SandboxJson, kind \in KindArgs}
           \cup {ThrowStmt}

SeqUpTo(S, n) == UNION {[1..k -> S] : k \in 0..n}

Scripts == SeqUpTo(Stmts, MaxCalls)

\* the statements of the source file of a directory with one workflow
DriverStmts ==
    {BuildStmt("a", json, kind) : json \in SandboxJson, kind \in KindArgs}
      \cup {BuildStmt("b", JsonFull, "workflow"), BuildStmt("b", JsonFull, "action")}
      \cup {ThrowStmt}

DriverScripts == SeqUpTo(DriverStmts, MaxCalls)

\* the scripts of the source files of a directory with several workflows
Fixtures ==
    { <<>>,
      <<BuildStmt("a", JsonFull, "workflow")>>,
      <<BuildStmt("a", JsonFull, NoKind), BuildStmt("b", JsonNoJobs, "action")>>,
      <<BuildStmt("b", JsonNoOn, "workflow"), BuildStmt("a", JsonFull, "workflow")>>,
      <<BuildStmt("b", JsonFull, "workflow"), ThrowStmt>> }

\* the .ts files of the input directory
Files == {"ci.ts", "release.ts"}

\* Path::file_stem
FileStem(f) == IF f = "ci.ts" THEN "ci" ELSE "release"

\* stdout of `npx tsx <file>` when the process succeeds
NpxJson == {JsonFull, JsonNoOn, JsonEmpty, JsonInvalid}

\* outcomes of execute_workflow_npx
NpxResults == {[ok |-> TRUE, json |-> j] : j \in NpxJson} \cup {[ok |-> FALSE, json |-> ""]}

\* out_dir.join(format!("{}.yml", id)) under <output_dir>/workflows
WorkflowPath(id) == "workflows/" \o id \o ".yml"

\* <output_dir>/actions/<id>/action.yml
ActionPath(id) == "actions/" \o id \o "/action.yml"

OutputPath(bo) == IF bo.output_type = "action" THEN ActionPath(bo.id) ELSE WorkflowPath(bo.id)

Paths == {WorkflowPath(id) : id \in Ids \cup {FileStem(f) : f \in Files}}
           \cup {ActionPath(id) : id \in Ids}

(***************************************************************************)
(* State.                                                                  *)
(***************************************************************************)
VARIABLES
    \* ---- executor.rs: one execute_js call
    epc,          \* position inside execute_js
    script,       \* the statements of the script not evaluated yet
    calls,        \* history: the __gha_build invocations made so far
    outputs,      \* contents of the Rc<RefCell<Vec<BuildOutput>>>
    holders,      \* strong count of that Rc
    ctx_alive,    \* the JsContext exists
    rt_alive,     \* the JsRuntime exists
    eresult,      \* the value execute_js returned
    \* ---- builder.rs, main.rs: one run of the build command
    bpc,               \* position inside cmd_build / build_all / build_workflow
    dry_run,           \* WorkflowBuilder.dry_run
    runtime_js_exists, \* generated/index.js exists
    workflow_files,    \* what find_workflow_files returned
    sources,           \* the script of every source file
    fidx,              \* build_all: index of the file of the current iteration
    build_outputs,     \* build_workflow: build_outputs
    aidx,              \* build_workflow: index of the artifact of the current iteration
    output_paths,      \* build_workflow: output_paths
    wresult,           \* what build_workflow returned
    built_files,       \* build_all: built_files
    disk,              \* the files under the output directory
    exit_code,         \* the exit status of the process, -1 while it runs
    bw,                \* history: how build_workflow got its artifacts
    alog,              \* history: what the loop did with each artifact of the file
    wlog,              \* history: the build_workflow calls of build_all
    \* ---- SystemTime::now()
    now,               \* the clock
    \* ---- builder.rs: one change check of an output file
    wpc,               \* position: "start", "done"
    w_file,            \* the output file
    w_new,             \* the new YAML text
    w_ret,             \* what should_write_file returned
    w_old,             \* history: the output file before the check
    w_body,            \* history: the text that followed the header in it
    w_hdr,             \* history: the file began with a generated header
    \* ---- cache.rs
    cache_file,        \* .gaji-cache.json
    cache,             \* the Cache handles of the processes
    cghost,            \* history: what each handle loaded and was asked to set
    clast,             \* history: the last successful set of each handle
    cret,              \* the last query of a handle and what it returned
    \* ---- parser/mod.rs, parser/extractor.rs: one extract_action_refs call
    ppc,               \* position: "start", "done"
    program,           \* the syntax tree the parser returned
    action_refs,       \* ActionRefExtractor.action_refs
    \* ---- generator/mod.rs: generate_types_for_refs, run after run
    gpc,               \* position inside generate_types_for_refs
    g_refs,            \* the action_refs argument
    g_fail,            \* the references whose fetch or generation fails      
    fetch_results,     \* the fetch results not processed yet
    action_infos,      \* action_infos
    generated_files,   \* generated_files
    gen_dir,           \* the files of the output directory
    g_prev,            \* history: the output directory after the run before
    g_run,             \* history: the number of finished runs
    step,              \* the step the generated getAction built last
    \* ---- watcher.rs: the loop of watch_paths
    kpc,               \* position: "recv" (blocked on rx), "handle" (in handle_event)
    rx,                \* the results in the channel, oldest first
    last_event,        \* last_event
    instant,           \* the monotonic clock (Instant::now), in milliseconds
    sent_count,        \* history: the number of results sent so far
    in_flight,         \* history: the handle_event runs started and not returned
    event_log,         \* history: what the loop did with each result it took
    \* ---- fetcher.rs: one ActionRef::parse call
    apc,               \* position: "start", "done"
    a_ref,             \* the action_ref argument
    a_parsed,          \* what ActionRef::parse returned
    \* ---- main.rs: the build command run again on the same directory
    b_run,             \* history: the number of build commands that have exited
    b_prev,            \* history: the output files after the command before
    b_outs,            \* history: the artifacts of the command before
    b_ok,              \* history: the command before built its file
    \* ---- generator/templates.rs: the steps() and outputs() calls of one Job
    spc,          \* "job" outside steps(), "steps" inside its callback
    s_steps,      \* StepBuilder._steps
    s_ctx,        \* StepBuilder._ctx
    s_calls,      \* the step callbacks invoked by add, with the context passed
    s_adds,       \* number of add calls so far
    s_runs,       \* number of steps() calls so far
    j_steps,      \* Job._steps
    j_ctx,        \* Job._ctx
    j_out,        \* the context the last outputs() callback received
    \* ---- fetcher.rs: one fetch_action_yaml call
    r_pc,         \* "off", "send", "sleep" or "done"
    r_url,        \* the URL requested: 1 for action.yml, 2 for action.yaml
    r_retries,    \* retries of the fetch_with_retry call in progress
    r_delay,      \* seconds of the sleep in progress
    r_log,        \* the requests sent so far, with what came back
    r_rets        \* what the fetch_with_retry calls returned, by URL

execVars == <<epc, script, calls, outputs, holders, ctx_alive, rt_alive, eresult>>

buildVars == <<bpc, dry_run, runtime_js_exists, workflow_files, sources, fidx,
               build_outputs, aidx, output_paths, wresult, built_files, disk,
               exit_code, bw, alog, wlog>>

writeVars == <<wpc, w_file, w_new, w_ret, w_old, w_body, w_hdr>>

cacheVars == <<cache_file, cache, cghost, clast, cret>>

parseVars == <<ppc, program, action_refs>>

genVars == <<gpc, g_refs, g_fail, fetch_results, action_infos, generated_files,
             gen_dir, g_prev, g_run, step>>

\* the state of the reference extractor and of the components after it
watchVars == <<kpc, rx, last_event, instant, sent_count, in_flight, event_log>>

refVars == <<apc, a_ref, a_parsed>>

rebuildVars == <<b_run, b_prev, b_outs, b_ok>>

stepVars == <<spc, s_steps, s_ctx, s_calls, s_adds, s_runs, j_steps, j_ctx, j_out>>

retryVars == <<r_pc, r_url, r_retries, r_delay, r_log, r_rets>>

toolVars == <<parseVars, genVars, watchVars, refVars, rebuildVars, stepVars, retryVars>>

vars == <<execVars, buildVars, now, writeVars, cacheVars, toolVars>>

\* what execute_js does not touch
nonExecVars == <<buildVars, now, writeVars, cacheVars, toolVars>>

\* what the build command does not touch, the clock apart
nonBuildVars == <<writeVars, cacheVars, toolVars>>

\* what the cache does not touch, the clock apart
nonCacheVars == <<execVars, buildVars, writeVars, toolVars>>

\* what the change check does not touch
nonWriteVars == <<execVars, buildVars, now, cacheVars, toolVars>>

\* what the reference extractor does not touch
nonParseVars == <<execVars, buildVars, now, writeVars, cacheVars, genVars, watchVars,
                  refVars, rebuildVars, stepVars, retryVars>>

\* what the generator does not touch
nonGenVars == <<execVars, buildVars, now, writeVars, cacheVars, parseVars, watchVars,
                refVars, rebuildVars, stepVars, retryVars>>

\* what the watch loop does not touch
nonWatchVars == <<execVars, buildVars, now, writeVars, cacheVars, parseVars, genVars,
                  refVars, rebuildVars, stepVars, retryVars>>

\* what ActionRef::parse does not touch
nonRefVars == <<execVars, buildVars, now, writeVars, cacheVars, parseVars, genVars,
                watchVars, rebuildVars, stepVars, retryVars>>

\* what starting the build command again does not touch
nonRebuildVars == <<execVars, writeVars, cacheVars, parseVars, genVars, watchVars,
                    refVars, stepVars, retryVars>>

\* what the step builder does not touch
nonStepVars == <<execVars, buildVars, now, writeVars, cacheVars, parseVars, genVars,
                 watchVars, refVars, rebuildVars, retryVars>>

\* what fetching action.yml does not touch
nonRetryVars == <<execVars, buildVars, now, writeVars, cacheVars, parseVars, genVars,
                  watchVars, refVars, rebuildVars, stepVars>>

\* no extract_action_refs call is in progress
ParseIdle ==
    /\ ppc = "off"
    /\ program = <<>>
    /\ action_refs = {}

\* the value of a property that is not set
Undefined == "<undefined>"

\* the config {} of a step
NoConfig == [given |-> TRUE, name |-> Undefined, with |-> Undefined, id |-> Undefined,
             if |-> Undefined, env |-> Undefined]

\* no step was built
NoStep == [made |-> FALSE, ref |-> <<>>, config |-> NoConfig,
           built |-> [uses |-> <<>>, name |-> Undefined, with |-> Undefined,
                      id |-> Undefined, if |-> Undefined, env |-> Undefined,
                      outputs |-> <<>>]]

\* no generate_types_for_refs call was made
GenIdle ==
    /\ gpc = "off"
    /\ g_refs = {}
    /\ g_fail = {}
    /\ fetch_results = <<>>
    /\ action_infos = <<>>
    /\ generated_files = <<>>
    /\ gen_dir = <<>>
    /\ g_prev = <<>>
    /\ g_run = 0
    /\ step = NoStep

\* Option<Instant>: None
NoInstant == [some |-> FALSE, at |-> 0]

\* Option<Instant>: Some(at)
SomeInstant(at) == [some |-> TRUE, at |-> at]

\* watch_paths is not running
WatchIdle ==
    /\ kpc = "off"
    /\ rx = <<>>
    /\ last_event = NoInstant
    /\ instant = 0
    /\ sent_count = 0
    /\ in_flight = 0
    /\ event_log = <<>>

\* Option<String>: None
NoPath == [some |-> FALSE, value |-> <<>>]

\* Option<String>: Some(value)
SomePath(value) == [some |-> TRUE, value |-> value]

\* ActionRef::parse has not returned
NotParsed == [status |-> "none", owner |-> <<>>, repo |-> <<>>, path |-> NoPath,
              ref_ |-> <<>>, err |-> ""]

\* ActionRef::parse is not called
RefIdle ==
    /\ apc = "off"
    /\ a_ref = <<>>
    /\ a_parsed = NotParsed

\* no build command has exited
RebuildIdle ==
    /\ b_run = 0
    /\ b_prev = <<>>
    /\ b_outs = <<>>
    /\ b_ok = FALSE

\* a step without an id
NoStepId == "<undefined>"

\* the ids of steps
StepIds == {"co", "b"}

\* a key of the context that no step has set
NoCtxEntry == [present |-> FALSE, entries |-> {}]

\* the object {}
EmptyCtx == [i \in StepIds |-> NoCtxEntry]

NoOutputsCall == [called |-> FALSE, ctx |-> EmptyCtx, steps |-> <<>>]

\* a Job on which neither steps() nor outputs() has been called
StepsIdle ==
    /\ spc = "job"
    /\ s_steps = <<>>
    /\ s_ctx = EmptyCtx
    /\ s_calls = <<>>
    /\ s_adds = 0
    /\ s_runs = 0
    /\ j_steps = <<>>
    /\ j_ctx = EmptyCtx
    /\ j_out = NoOutputsCall

\* fetch_with_retry has not returned
NotReturned == [status |-> "none", err |-> ""]

\* the URLs fetch_action_yaml requests: 1 is action.yml, 2 is action.yaml
Urls == {1, 2}

\* no fetch_action_yaml call is in progress
RetryIdle ==
    /\ r_pc = "off"
    /\ r_url = 1
    /\ r_retries = 0
    /\ r_delay = 0
    /\ r_log = <<>>
    /\ r_rets = [u \in Urls |-> NotReturned]

ToolsIdle ==
    ParseIdle /\ GenIdle /\ WatchIdle /\ RefIdle /\ RebuildIdle /\ StepsIdle /\ RetryIdle

NoResult == [status |-> "none", list |-> <<>>, err |-> ""]

OkResult(list) == [status |-> "ok", list |-> list, err |-> ""]

ErrResult(msg) == [status |-> "err", list |-> <<>>, err |-> msg]

(***************************************************************************)
(* Text: str::lines, join, trim.                                           *)
(***************************************************************************)
\* char::is_whitespace on the tokens of the model
WhiteSpace == {"\n", "\r", " "}

\* the position of the first "\n" of s, 0 when there is none
RECURSIVE FirstNewline(_, _)
FirstNewline(s, i) ==
    IF i > Len(s) THEN 0
    ELSE IF s[i] = "\n" THEN i
    ELSE FirstNewline(s, i + 1)

\* a line that ended in "\n" loses one "\r" before it
StripCarriageReturn(l) ==
    IF Len(l) > 0 /\ l[Len(l)] = "\r" THEN SubSeq(l, 1, Len(l) - 1) ELSE l

\* str::lines: lines end in "\n" or "\r\n"; no empty line after a final "\n"
RECURSIVE Lines(_)
Lines(s) ==
    IF s = <<>> THEN <<>>
    ELSE LET nl == FirstNewline(s, 1)
         IN IF nl = 0 THEN <<s>>
            ELSE <<StripCarriageReturn(SubSeq(s, 1, nl - 1))>> \o Lines(SubSeq(s, nl + 1, Len(s)))

\* Iterator::skip(n)
Skip(q, n) == SubSeq(q, n + 1, Len(q))

\* [&str]::join("\n")
RECURSIVE JoinLines(_)
JoinLines(ls) ==
    IF ls = <<>> THEN <<>>
    ELSE IF Len(ls) = 1 THEN ls[1]
    ELSE ls[1] \o <<"\n">> \o JoinLines(Tail(ls))

RECURSIVE TrimStart(_)
TrimStart(s) ==
    IF s # <<>> /\ s[1] \in WhiteSpace THEN TrimStart(Tail(s)) ELSE s

RECURSIVE TrimEnd(_)
TrimEnd(s) ==
    IF s # <<>> /\ s[Len(s)] \in WhiteSpace THEN TrimEnd(SubSeq(s, 1, Len(s) - 1)) ELSE s

\* str::trim
Trim(s) == TrimEnd(TrimStart(s))

(***************************************************************************)
(* builder.rs: JSON to YAML, validation, change detection.                 *)
(***************************************************************************)
\* serde_json::from_str on the JSON texts of the model: the top-level value
JsonFromStr(text) ==
    CASE text = JsonFull -> [ok |-> TRUE, kind |-> "object",
                             entries |-> <<<<"jobs", "{}">>, <<"on", "{}">>>>]
      [] text = JsonNoOn -> [ok |-> TRUE, kind |-> "object",
                             entries |-> <<<<"jobs", "{}">>, <<"name", "CI">>>>]
      [] text = JsonNoJobs -> [ok |-> TRUE, kind |-> "object",
                               entries |-> <<<<"on", "{}">>>>]
      [] text = JsonArray -> [ok |-> TRUE, kind |-> "array",
                              entries |-> <<<<"", "item">>>>]
      [] text = JsonEmpty -> [ok |-> TRUE, kind |-> "object", entries |-> <<>>]
      [] OTHER -> [ok |-> FALSE, kind |-> "", entries |-> <<>>]

\* the block form: one "key: value" line per entry of a mapping, one
\* "- value" line per element of a sequence
RECURSIVE YamlBlock(_)
YamlBlock(v) ==
    IF v.entries = <<>> THEN <<>>
    ELSE LET e == Head(v.entries)
             line == IF v.kind = "object"
                     THEN <<e[1] \o ":", " ", e[2], "\n">>
                     ELSE <<"-", " ", e[2], "\n">>
         IN line \o YamlBlock([v EXCEPT !.entries = Tail(v.entries)])

\* serde_yaml::to_string: an empty collection is written in flow form
YamlToString(v) ==
    IF v.entries # <<>> THEN YamlBlock(v)
    ELSE IF v.kind = "object" THEN <<"{}", "\n">>
    ELSE <<"[]", "\n">>

\* json_to_yaml: Err("Invalid JSON output from workflow") or the YAML text
JsonToYaml(json) ==
    LET v == JsonFromStr(json)
    IN IF v.ok THEN [ok |-> TRUE, yaml |-> YamlToString(v)]
       ELSE [ok |-> FALSE, yaml |-> <<>>]

YamlKeys == {"jobs", "name", "on"}

\* serde_yaml::from_str: the top-level node of a YAML text
YamlFromStr(yaml) ==
    LET ls == Lines(yaml)
        IsEntry(l) == Len(l) > 0 /\ \E k \in YamlKeys : l[1] = k \o ":"
        IsItem(l) == Len(l) > 0 /\ l[1] = "-"
    IN IF ls = <<<<"{}">>>>
       THEN [ok |-> TRUE, kind |-> "mapping", keys |-> {}]
       ELSE IF ls = <<<<"[]">>>>
       THEN [ok |-> TRUE, kind |-> "sequence", keys |-> {}]
       ELSE IF ls # <<>> /\ \A i \in 1..Len(ls) : IsEntry(ls[i])
       THEN [ok |-> TRUE, kind |-> "mapping",
             keys |-> {k \in YamlKeys : \E i \in 1..Len(ls) : ls[i][1] = k \o ":"}]
       ELSE IF ls # <<>> /\ \A i \in 1..Len(ls) : IsItem(ls[i])
       THEN [ok |-> TRUE, kind |-> "sequence", keys |-> {}]
       ELSE IF Len(ls) <= 1
       THEN [ok |-> TRUE, kind |-> "scalar", keys |-> {}]
       ELSE [ok |-> FALSE, kind |-> "", keys |-> {}]

\* a variant of validate_workflow_yaml that forgets the 'jobs' check
ValidateWorkflowYamlOnOnly(yaml) ==
    LET value == YamlFromStr(yaml)
    IN IF ~value.ok THEN "Invalid YAML syntax"
       ELSE IF value.kind # "mapping" THEN "Workflow must be a YAML mapping"
       ELSE IF "on" \notin value.keys THEN "Workflow missing required 'on' field"
       ELSE "ok"

\* validate_workflow_yaml: "ok" or the message of the error
ValidateWorkflowYaml(yaml) ==
    LET value == YamlFromStr(yaml)
    IN IF ~value.ok THEN "Invalid YAML syntax"
       ELSE IF value.kind # "mapping" THEN "Workflow must be a YAML mapping"
       ELSE IF "on" \notin value.keys THEN "Workflow missing required 'on' field"
       ELSE IF "jobs" \notin value.keys THEN "Workflow missing required 'jobs' field"
       ELSE "ok"

\* a variant of should_write_file that compares without trimming
ShouldWriteFileNoTrim(exists, old, new_content) ==
    IF ~exists THEN TRUE
    ELSE JoinLines(Skip(Lines(old), 4)) # new_content

\* should_write_file on the existing content old (exists = path.exists())
ShouldWriteFile(exists, old, new_content) ==
    IF ~exists THEN TRUE
    ELSE LET old_lines == Skip(Lines(old), 4)
             old_stripped == JoinLines(old_lines)
         IN Trim(old_stripped) # Trim(new_content)

\* timestamp_now(): the text of the clock value t
TimestampNow(t) == ToString(t)

\* the header build_workflow puts before the YAML text: four lines
Header(workflow_path, t) ==
    <<"#Auto-generated", "\n",
      "#Edit", " ", workflow_path, "\n",
      "#Generated", " ", TimestampNow(t), "\n",
      "\n">>

FinalContent(workflow_path, t, yaml_content) == Header(workflow_path, t) \o yaml_content

\* build_workflow, "Check if content changed": fs::write of header and
\* text when should_write_file says so; the file afterwards
WriteIfChanged(file, workflow_path, t, yaml_content) ==
    IF ShouldWriteFile(file.exists, file.text, yaml_content)
    THEN [exists |-> TRUE, text |-> FinalContent(workflow_path, t, yaml_content)]
    ELSE file

(***************************************************************************)
(* executor.rs: execute_js                                                 *)
(***************************************************************************)
\* a variant that takes String::default() for an omitted kind
OutputTypeEmptyDefault(kind) == IF kind = NoKind THEN "" ELSE kind

\* output_type.0.unwrap_or_else(|| "workflow".to_string())
OutputType(kind) == IF kind = NoKind THEN "workflow" ELSE kind

BuildOutput(st) == [id |-> st.id, json |-> st.json, output_type |-> OutputType(st.kind)]

\* a variant that takes the contents whoever else holds the Rc
TryUnwrapLax(count) == count >= 1

\* Rc::try_unwrap(outputs) succeeds iff the host's handle is the only one
TryUnwrapOk(count) == count = 1

\* the state of a fresh call of execute_js on the script s
ExecEnter(s) ==
    /\ epc' = "start"
    /\ script' = s
    /\ calls' = <<>>
    /\ outputs' = <<>>
    /\ holders' = 1
    /\ ctx_alive' = FALSE
    /\ rt_alive' = FALSE
    /\ eresult' = NoResult

\* JsRuntime::new, JsContext::full, outputs.clone() moved into the Func,
\* globals().set("__gha_build", build_fn)
ExecSetup ==
    /\ epc = "start"
    /\ epc' = "eval"
    /\ rt_alive' = TRUE
    /\ ctx_alive' = TRUE
    /\ holders' = holders + 1
    /\ UNCHANGED <<script, calls, outputs, eresult>>
    /\ UNCHANGED nonExecVars

\* runtime, context or global registration failed: `?` leaves the function
ExecSetupFail ==
    /\ epc = "start"
    /\ epc' = "done"
    /\ eresult' = ErrResult("Failed to create QuickJS runtime")
    /\ holders' = 0
    /\ UNCHANGED <<script, calls, outputs, ctx_alive, rt_alive>>
    /\ UNCHANGED nonExecVars

\* the script calls __gha_build(id, json, kind?): the host closure pushes
GhaBuild ==
    /\ epc = "eval"
    /\ script # <<>>
    /\ Head(script).op = "build"
    /\ outputs' = Append(outputs, BuildOutput(Head(script)))
    /\ calls' = Append(calls, Head(script))
    /\ script' = Tail(script)
    /\ UNCHANGED <<epc, holders, ctx_alive, rt_alive, eresult>>
    /\ UNCHANGED nonExecVars

\* a variant that hands out what the script emitted before it raised
ExecThrowKeepsOutputs ==
    /\ epc = "eval"
    /\ script # <<>>
    /\ Head(script).op = "throw"
    /\ epc' = "done"
    /\ eresult' = OkResult(outputs)
    /\ ctx_alive' = FALSE
    /\ rt_alive' = FALSE
    /\ holders' = 0
    /\ outputs' = <<>>
    /\ UNCHANGED <<script, calls>>
    /\ UNCHANGED nonExecVars

\* the script raises: ctx.eval returns Err, the closure returns Err and
\* `})?` returns from execute_js, dropping ctx, rt and outputs
ExecThrow ==
    /\ epc = "eval"
    /\ script # <<>>
    /\ Head(script).op = "throw"
    /\ epc' = "done"
    /\ eresult' = ErrResult("QuickJS evaluation error")
    /\ ctx_alive' = FALSE
    /\ rt_alive' = FALSE
    /\ holders' = 0
    /\ outputs' = <<>>
    /\ UNCHANGED <<script, calls>>
    /\ UNCHANGED nonExecVars

\* ctx.eval returned Ok(())
ExecEvalDone ==
    /\ epc = "eval"
    /\ script = <<>>
    /\ epc' = "drop"
    /\ UNCHANGED <<script, calls, outputs, holders, ctx_alive, rt_alive, eresult>>
    /\ UNCHANGED nonExecVars

\* end of the inner block: ctx and rt are dropped.  Freeing the runtime
\* frees the Func and with it the closure's clone of the Rc.
ExecDropScope ==
    /\ epc = "drop"
    /\ epc' = "extract"
    /\ ctx_alive' = FALSE
    /\ rt_alive' = FALSE
    /\ holders' = holders - 1
    /\ UNCHANGED <<script, calls, outputs, eresult>>
    /\ UNCHANGED nonExecVars

\* The interpreter is a foreign library: an object it fails to free keeps
\* the closure, and its Rc clone, alive after the drop.
ExecDropScopeLeak ==
    /\ epc = "drop"
    /\ epc' = "extract"
    /\ ctx_alive' = FALSE
    /\ rt_alive' = FALSE
    /\ UNCHANGED <<holders, script, calls, outputs, eresult>>
    /\ UNCHANGED nonExecVars

\* Rc::try_unwrap(outputs).map_err(..)?.into_inner(); the host's handle is
\* consumed either way
ExecExtract ==
    /\ epc = "extract"
    /\ epc' = "done"
    /\ eresult' = IF TryUnwrapOk(holders)
                  THEN OkResult(outputs)
                  ELSE ErrResult("Failed to unwrap Rc - references still held")
    /\ holders' = holders - 1
    /\ UNCHANGED <<script, calls, outputs, ctx_alive, rt_alive>>
    /\ UNCHANGED nonExecVars

ExecStep ==
    \/ ExecSetup
    \/ ExecSetupFail
    \/ GhaBuild
    \/ ExecThrow
    \/ ExecEvalDone
    \/ ExecDropScope
    \/ ExecDropScopeLeak
    \/ ExecExtract

(***************************************************************************)
(* builder.rs: WorkflowBuilder::build_all / build_workflow, main.rs:       *)
(* cmd_build                                                               *)
(***************************************************************************)
NoFile == [exists |-> FALSE, text |-> <<>>]

NoWResult == [status |-> "none", paths |-> <<>>, err |-> ""]

NoBw == [file |-> "", runtime |-> FALSE, sandbox |-> NoResult, fallback |-> FALSE,
         decided |-> FALSE]

\* the build variables while no build command runs
BuildIdle ==
    /\ bpc = "off"
    /\ dry_run = FALSE
    /\ runtime_js_exists = FALSE
    /\ workflow_files = <<>>
    /\ sources = [f \in Files |-> <<>>]
    /\ fidx = 1
    /\ build_outputs = <<>>
    /\ aidx = 1
    /\ output_paths = <<>>
    /\ wresult = NoWResult
    /\ built_files = <<>>
    /\ disk = [p \in Paths |-> NoFile]
    /\ exit_code = -1
    /\ bw = NoBw
    /\ alog = <<>>
    /\ wlog = <<>>

\* the executor variables while no execute_js call runs
ExecIdle ==
    /\ epc = "idle"
    /\ script = <<>>
    /\ calls = <<>>
    /\ outputs = <<>>
    /\ holders = 0
    /\ ctx_alive = FALSE
    /\ rt_alive = FALSE
    /\ eresult = NoResult

\* a variant that takes any Ok of the sandbox, also an empty one
SandboxUsableAnyOk(res) == res.status = "ok"

\* the arm `Ok(outputs) if !outputs.is_empty()` of build_workflow
SandboxUsable(res) == res.status = "ok" /\ res.list # <<>>

\* a variant of the loop of build_all that leaves at the first failure
NextFileIndexStop(i, ok) == IF ok THEN i + 1 ELSE Len(workflow_files) + 1

\* build_all: the loop goes on to the next file whatever the result was
NextFileIndex(i, ok) == i + 1

\* cmd_build returns Ok(()) whenever build_all returned Ok
CmdBuildExitCode(built) == 0

\* cmd_build up to the first iteration of build_all: Config::load,
\* create_dir_all, find_workflow_files
CmdBuild ==
    /\ bpc = "cmd"
    /\ built_files' = <<>>
    /\ fidx' = 1
    /\ IF workflow_files = <<>>
       THEN /\ bpc' = "exited"
            /\ exit_code' = CmdBuildExitCode(<<>>)
       ELSE /\ bpc' = "file"
            /\ UNCHANGED exit_code
    /\ UNCHANGED <<dry_run, runtime_js_exists, workflow_files, sources, build_outputs,
                   aidx, output_paths, wresult, disk, now, bw, alog, wlog>>
    /\ UNCHANGED execVars
    /\ UNCHANGED nonBuildVars

\* Config::load()?, create_dir_all()? or read_dir()? failed: main returns Err
CmdBuildFail ==
    /\ bpc = "cmd"
    /\ bpc' = "exited"
    /\ exit_code' = 1
    /\ UNCHANGED <<dry_run, runtime_js_exists, workflow_files, sources, fidx,
                   build_outputs, aidx, output_paths, wresult, built_files, disk, now,
                   bw, alog, wlog>>
    /\ UNCHANGED execVars
    /\ UNCHANGED nonBuildVars

\* the clock, 0 when the command starts, advances while files are built
Tick ==
    /\ bpc = "file"
    /\ fidx > 1
    /\ now < MaxTime
    /\ now' = now + 1
    /\ UNCHANGED <<bpc, dry_run, runtime_js_exists, workflow_files, sources, fidx,
                   build_outputs, aidx, output_paths, wresult, built_files, disk,
                   exit_code, bw, alog, wlog>>
    /\ UNCHANGED execVars
    /\ UNCHANGED nonBuildVars

\* the locals of a fresh build_workflow call on the file f
BuildWorkflowEnter(f) ==
    /\ build_outputs' = <<>>
    /\ aidx' = 1
    /\ output_paths' = <<>>
    /\ wresult' = NoWResult
    /\ alog' = <<>>
    /\ UNCHANGED <<dry_run, runtime_js_exists, workflow_files, sources, fidx,
                   built_files, disk, now, exit_code, wlog>>
    /\ UNCHANGED nonBuildVars

\* the fallback: execute_workflow_npx(workflow_path)? and one workflow
\* artifact named after the file stem
Fallback(f, r) ==
    IF r.ok
    THEN /\ build_outputs' = <<[id |-> FileStem(f), json |-> r.json,
                                output_type |-> "workflow"]>>
         /\ bpc' = "artifacts"
         /\ wresult' = NoWResult
    ELSE /\ build_outputs' = <<>>
         /\ bpc' = "returned"
         /\ wresult' = [status |-> "err", paths |-> <<>>,
                        err |-> "Failed to execute workflow"]

\* build_workflow, generated/index.js exists: execute_workflow reads and
\* strips the source and calls execute_js on the bundle
BuildWorkflowSandbox ==
    /\ bpc = "file"
    /\ fidx <= Len(workflow_files)
    /\ runtime_js_exists
    /\ bpc' = "sandbox"
    /\ bw' = [NoBw EXCEPT !.file = workflow_files[fidx], !.runtime = TRUE]
    /\ ExecEnter(sources[workflow_files[fidx]])
    /\ BuildWorkflowEnter(workflow_files[fidx])

\* execute_workflow fails before execute_js: read_to_string or
\* strip_typescript returned Err
ExecuteWorkflowFail ==
    /\ bpc = "file"
    /\ fidx <= Len(workflow_files)
    /\ runtime_js_exists
    /\ bpc' = "sandbox"
    /\ bw' = [NoBw EXCEPT !.file = workflow_files[fidx], !.runtime = TRUE]
    /\ epc' = "done"
    /\ eresult' = ErrResult("Parse errors")
    /\ script' = <<>>
    /\ calls' = <<>>
    /\ outputs' = <<>>
    /\ holders' = 0
    /\ UNCHANGED <<ctx_alive, rt_alive>>
    /\ BuildWorkflowEnter(workflow_files[fidx])

\* build_workflow, generated/index.js is absent: npx tsx directly
BuildWorkflowNoRuntime ==
    /\ bpc = "file"
    /\ fidx <= Len(workflow_files)
    /\ ~runtime_js_exists
    /\ \E r \in NpxResults :
          /\ Fallback(workflow_files[fidx], r)
          /\ bw' = [NoBw EXCEPT !.file = workflow_files[fidx], !.fallback = TRUE,
                                !.decided = TRUE]
    /\ aidx' = 1
    /\ output_paths' = <<>>
    /\ alog' = <<>>
    /\ UNCHANGED <<dry_run, runtime_js_exists, workflow_files, sources, fidx,
                   built_files, disk, now, exit_code, wlog>>
    /\ UNCHANGED execVars
    /\ UNCHANGED nonBuildVars

\* build_workflow: the match on what execute_workflow returned
SandboxReturned ==
    /\ bpc = "sandbox"
    /\ epc = "done"
    /\ IF SandboxUsable(eresult)
       THEN /\ build_outputs' = eresult.list
            /\ bpc' = "artifacts"
            /\ wresult' = NoWResult
            /\ bw' = [bw EXCEPT !.sandbox = eresult, !.decided = TRUE]
       ELSE \E r \in NpxResults :
               /\ Fallback(bw.file, r)
               /\ bw' = [bw EXCEPT !.sandbox = eresult, !.fallback = TRUE,
                                   !.decided = TRUE]
    /\ UNCHANGED <<dry_run, runtime_js_exists, workflow_files, sources, fidx, aidx,
                   output_paths, built_files, disk, now, exit_code, alog, wlog>>
    /\ UNCHANGED execVars
    /\ UNCHANGED nonBuildVars

\* build_workflow: one iteration of `for build_output in &build_outputs`.
\* No document of the model has a `shell: node` step, so
\* copy_node_shell_files copies nothing.
ProcessArtifact ==
    /\ bpc = "artifacts"
    /\ aidx <= Len(build_outputs)
    /\ LET bo == build_outputs[aidx]
           conv == JsonToYaml(bo.json)
           verdict == IF ~conv.ok THEN "Invalid JSON output from workflow"
                      ELSE IF bo.output_type = "workflow"
                      THEN ValidateWorkflowYaml(conv.yaml)
                      ELSE "exempt"
           path == OutputPath(bo)
           write == ShouldWriteFile(disk[path].exists, disk[path].text, conv.yaml)
           entry(did) == [idx |-> aidx, kind |-> bo.output_type, json |-> bo.json,
                          verdict |-> verdict, did |-> did, path |-> path]
       IN IF verdict \notin {"ok", "exempt"}
          THEN \* json_to_yaml(..)? or validate_workflow_yaml(..)? returns Err
               /\ bpc' = "returned"
               /\ wresult' = [status |-> "err", paths |-> <<>>, err |-> verdict]
               /\ alog' = Append(alog, entry("aborted"))
               /\ UNCHANGED <<aidx, output_paths, disk>>
          ELSE IF dry_run
          THEN \* print and `continue`
               /\ aidx' = aidx + 1
               /\ alog' = Append(alog, entry("printed"))
               /\ UNCHANGED <<bpc, wresult, output_paths, disk>>
          ELSE /\ aidx' = aidx + 1
               /\ disk' = [disk EXCEPT ![path] =
                                  WriteIfChanged(disk[path], bw.file, now, conv.yaml)]
               /\ alog' = Append(alog, entry(IF write THEN "wrote" ELSE "unchanged"))
               /\ output_paths' = Append(output_paths, path)
               /\ UNCHANGED <<bpc, wresult>>
    /\ UNCHANGED <<dry_run, runtime_js_exists, workflow_files, sources, fidx,
                   build_outputs, built_files, now, exit_code, bw, wlog>>
    /\ UNCHANGED execVars
    /\ UNCHANGED nonBuildVars

\* build_workflow: Ok(output_paths)
BuildWorkflowReturn ==
    /\ bpc = "artifacts"
    /\ aidx > Len(build_outputs)
    /\ bpc' = "returned"
    /\ wresult' = [status |-> "ok", paths |-> output_paths, err |-> ""]
    /\ UNCHANGED <<dry_run, runtime_js_exists, workflow_files, sources, fidx,
                   build_outputs, aidx, output_paths, built_files, disk, now,
                   exit_code, bw, alog, wlog>>
    /\ UNCHANGED execVars
    /\ UNCHANGED nonBuildVars

\* build_all: the match on what build_workflow returned, and pb.inc(1)
BuildAllCollect ==
    /\ bpc = "returned"
    /\ bpc' = "file"
    /\ built_files' = IF wresult.status = "ok" THEN built_files \o wresult.paths
                      ELSE built_files
    /\ wlog' = Append(wlog, [file |-> workflow_files[fidx], ok |-> wresult.status = "ok",
                             paths |-> wresult.paths])
    /\ fidx' = NextFileIndex(fidx, wresult.status = "ok")
    /\ UNCHANGED <<dry_run, runtime_js_exists, workflow_files, sources, build_outputs,
                   aidx, output_paths, wresult, disk, now, exit_code, bw, alog>>
    /\ UNCHANGED execVars
    /\ UNCHANGED nonBuildVars

\* build_all returns Ok(built_files); cmd_build prints the count and
\* returns Ok(())
BuildAllReturn ==
    /\ bpc = "file"
    /\ fidx > Len(workflow_files)
    /\ bpc' = "exited"
    /\ exit_code' = CmdBuildExitCode(built_files)
    /\ UNCHANGED <<dry_run, runtime_js_exists, workflow_files, sources, fidx,
                   build_outputs, aidx, output_paths, wresult, built_files, disk, now,
                   bw, alog, wlog>>
    /\ UNCHANGED execVars
    /\ UNCHANGED nonBuildVars

\* the user runs the build command again, at once or later, on the same
\* sources and the output files the command before left
Rebuild ==
    /\ bpc = "exited"
    /\ b_run < MaxRebuilds
    /\ b_run' = b_run + 1
    /\ b_prev' = disk
    /\ b_outs' = build_outputs
    /\ b_ok' = (exit_code = 0 /\ wresult.status = "ok")
    /\ bpc' = "cmd"
    /\ exit_code' = -1
    /\ wlog' = <<>>
    /\ now' \in {t \in {now, now + 1} : t <= MaxTime}
    /\ UNCHANGED <<dry_run, runtime_js_exists, workflow_files, sources, fidx,
                   build_outputs, aidx, output_paths, wresult, built_files, disk, bw,
                   alog>>
    /\ UNCHANGED nonRebuildVars

(***************************************************************************)
(* builder.rs: the change check of build_workflow on one output file.      *)
(***************************************************************************)
\* the tokens of the texts of an existing file
BodyAlphabet == {"x", "\n", "\r", " "}

\* the tokens of a text serde_yaml wrote
NewAlphabet == {"x", "\n", " "}

WriteIdle ==
    /\ wpc = "off"
    /\ w_file = NoFile
    /\ w_new = <<>>
    /\ w_ret = FALSE
    /\ w_old = NoFile
    /\ w_body = <<>>
    /\ w_hdr = FALSE

\* `if should_write_file(&output_path, &yaml_content).await? { fs::write } else { unchanged }`
WriteCheck ==
    /\ wpc = "start"
    /\ wpc' = "done"
    /\ w_ret' = ShouldWriteFile(w_file.exists, w_file.text, w_new)
    /\ w_file' = WriteIfChanged(w_file, "ci.ts", now, w_new)
    /\ UNCHANGED <<w_new, w_old, w_body, w_hdr>>
    /\ UNCHANGED nonWriteVars

(***************************************************************************)
(* cache.rs                                                                *)
(***************************************************************************)
\* action references
Refs == {"r1", "r2"}

\* the processes that hold a Cache
Handles == {1, 2}

\* what was fetched for a reference: the bytes of action.yml and the
\* metadata parsed from them
Fetched == {[metadata |-> "m1", yaml |-> <<97>>], [metadata |-> "m2", yaml |-> <<98, 97>>]}

\* Option::None of get
NoMetadata == "<none>"

HexChars == <<"0", "1", "2", "3", "4", "5", "6", "7", "8", "9", "a", "b", "c", "d", "e", "f">>

\* number of hexadecimal digits of a u64
HashDigits == 16

\* hash.wrapping_mul(31).wrapping_add(byte) on the digits of hash, least
\* significant first; the carry out of the last digit is lost
RECURSIVE WrappingMulAdd(_, _, _)
WrappingMulAdd(digits, i, carry) ==
    IF i > HashDigits THEN <<>>
    ELSE LET v == digits[i] * 31 + carry
         IN <<v % 16>> \o WrappingMulAdd(digits, i + 1, v \div 16)

RECURSIVE HashBytes(_, _)
HashBytes(digits, bytes) ==
    IF bytes = <<>> THEN digits
    ELSE HashBytes(WrappingMulAdd(digits, 1, Head(bytes)), Tail(bytes))

\* calculate_hash: format!("{:016x}", hash)
CalculateHash(content) ==
    LET digits == HashBytes([i \in 1..HashDigits |-> 0], content)
    IN [i \in 1..HashDigits |-> HexChars[digits[HashDigits + 1 - i] + 1]]

NoEntry == [present |-> FALSE, content_hash |-> <<>>, generated_at |-> 0,
            metadata |-> NoMetadata]

\* CacheData::default()
DefaultCacheData == [version |-> 0, entries |-> [r \in Refs |-> NoEntry]]

\* CacheData { version: 1, ..Default::default() }
NewCacheData == [version |-> 1, entries |-> [r \in Refs |-> NoEntry]]

NoHandle == [status |-> "none", data |-> DefaultCacheData]

NoGhost == [from |-> "none", base |-> {}, sets |-> {}, exclusive |-> FALSE]

NoLast == [valid |-> FALSE, ref |-> "", metadata |-> NoMetadata, yaml |-> <<>>]

NoQuery == [op |-> "none", h |-> 0, ref |-> "", arg |-> <<>>, at |-> 0, ret |-> FALSE]

CacheIdle ==
    /\ cache_file = [state |-> "missing", data |-> DefaultCacheData]
    /\ cache = [h \in Handles |-> NoHandle]
    /\ cghost = [h \in Handles |-> NoGhost]
    /\ clast = [h \in Handles |-> NoLast]
    /\ cret = NoQuery

\* Cache::get
Get(h, action_ref) == cache[h].data.entries[action_ref].metadata

\* Cache::should_regenerate; a variant that keeps a reference without an
\* entry
ShouldRegenerateNoneKept(h, action_ref, new_hash) ==
    LET entry == cache[h].data.entries[action_ref]
    IN IF entry.present THEN entry.content_hash # new_hash ELSE FALSE

\* Cache::should_regenerate
ShouldRegenerate(h, action_ref, new_hash) ==
    LET entry == cache[h].data.entries[action_ref]
    IN IF entry.present THEN entry.content_hash # new_hash ELSE TRUE

\* Cache::is_expired at clock time t; a variant that also expires an entry
\* that is exactly max_age_secs old
IsExpiredInclusive(h, action_ref, max_age_days, t) ==
    LET max_age_secs == max_age_days * 24 * 60 * 60
        entry == cache[h].data.entries[action_ref]
    IN IF entry.present THEN t - entry.generated_at >= max_age_secs ELSE TRUE

\* Cache::is_expired at clock time t
IsExpired(h, action_ref, max_age_days, t) ==
    LET max_age_secs == max_age_days * 24 * 60 * 60
        entry == cache[h].data.entries[action_ref]
    IN IF entry.present THEN t - entry.generated_at > max_age_secs ELSE TRUE

\* Cache::load_or_create
LoadOrCreate(h) ==
    /\ cache[h].status = "none"
    /\ LET data == IF cache_file.state = "missing" THEN NewCacheData
                   ELSE IF cache_file.state = "valid" THEN cache_file.data
                   ELSE DefaultCacheData
       IN IF cache_file.state = "unreadable"
          THEN \* std::fs::read_to_string(&cache_file)? returns Err
               /\ cache' = [cache EXCEPT ![h] = [status |-> "error",
                                                 data |-> DefaultCacheData]]
               /\ cghost' = [cghost EXCEPT ![h].from = cache_file.state]
          ELSE /\ cache' = [cache EXCEPT ![h] = [status |-> "loaded", data |-> data]]
               /\ cghost' = [cghost EXCEPT ![h] =
                               [from |-> cache_file.state,
                                base |-> {r \in Refs : data.entries[r].present},
                                sets |-> {}, exclusive |-> TRUE]]
    /\ UNCHANGED <<cache_file, clast, cret, now>>
    /\ UNCHANGED nonCacheVars

\* Cache::set; a variant that adds the entry to the table read back from
\* the file
SetMerging(h, action_ref, fetched) ==
    /\ cache[h].status = "loaded"
    /\ LET entry == [present |-> TRUE,
                     content_hash |-> CalculateHash(fetched.yaml),
                     generated_at |-> now,
                     metadata |-> fetched.metadata]
           onDisk == IF cache_file.state = "valid" THEN cache_file.data
                     ELSE cache[h].data
           data == [onDisk EXCEPT !.entries[action_ref] = entry]
       IN cache_file' = [state |-> "valid", data |-> data]
    /\ cghost' = [g \in Handles |->
                    IF g = h THEN [cghost[g] EXCEPT !.sets = @ \cup {action_ref}]
                    ELSE [cghost[g] EXCEPT !.exclusive = FALSE]]
    /\ clast' = [clast EXCEPT ![h] = [valid |-> TRUE, ref |-> action_ref,
                                      metadata |-> fetched.metadata,
                                      yaml |-> fetched.yaml]]
    /\ UNCHANGED <<cache, cret, now>>
    /\ UNCHANGED nonCacheVars

\* Cache::set: a clone of self.data with the entry is written to the file
Set(h, action_ref, fetched) ==
    /\ cache[h].status = "loaded"
    /\ LET entry == [present |-> TRUE,
                     content_hash |-> CalculateHash(fetched.yaml),
                     generated_at |-> now,
                     metadata |-> fetched.metadata]
           data == [cache[h].data EXCEPT !.entries[action_ref] = entry]
       IN cache_file' = [state |-> "valid", data |-> data]
    /\ cghost' = [g \in Handles |->
                    IF g = h THEN [cghost[g] EXCEPT !.sets = @ \cup {action_ref}]
                    ELSE [cghost[g] EXCEPT !.exclusive = FALSE]]
    /\ clast' = [clast EXCEPT ![h] = [valid |-> TRUE, ref |-> action_ref,
                                      metadata |-> fetched.metadata,
                                      yaml |-> fetched.yaml]]
    /\ UNCHANGED <<cache, cret, now>>
    /\ UNCHANGED nonCacheVars

\* Cache::remove: a clone of self.data without the entry is written
Remove(h, action_ref) ==
    /\ cache[h].status = "loaded"
    /\ cache_file' = [state |-> "valid",
                      data |-> [cache[h].data EXCEPT !.entries[action_ref] = NoEntry]]
    /\ cghost' = [g \in Handles |-> [cghost[g] EXCEPT !.exclusive = FALSE]]
    /\ clast' = [clast EXCEPT ![h] = NoLast]
    /\ UNCHANGED <<cache, cret, now>>
    /\ UNCHANGED nonCacheVars

\* Cache::clear: the file is deleted when it exists
Clear(h) ==
    /\ cache[h].status = "loaded"
    /\ cache_file' = IF cache_file.state # "missing"
                     THEN [state |-> "missing", data |-> DefaultCacheData]
                     ELSE cache_file
    /\ cghost' = [g \in Handles |-> [cghost[g] EXCEPT !.exclusive = FALSE]]
    /\ clast' = [clast EXCEPT ![h] = NoLast]
    /\ UNCHANGED <<cache, cret, now>>
    /\ UNCHANGED nonCacheVars

\* a process asks its handle whether the entry of a reference is expired
IsExpiredCall(h, action_ref, max_age_days) ==
    /\ cache[h].status = "loaded"
    /\ cret' = [op |-> "is_expired", h |-> h, ref |-> action_ref,
                arg |-> <<max_age_days>>, at |-> now,
                ret |-> IsExpired(h, action_ref, max_age_days, now)]
    /\ UNCHANGED <<cache_file, cache, cghost, clast, now>>
    /\ UNCHANGED nonCacheVars

\* a process asks its handle whether a reference has to be regenerated
ShouldRegenerateCall(h, action_ref, new_hash) ==
    /\ cache[h].status = "loaded"
    /\ cret' = [op |-> "should_regenerate", h |-> h, ref |-> action_ref,
                arg |-> new_hash, at |-> now,
                ret |-> ShouldRegenerate(h, action_ref, new_hash)]
    /\ UNCHANGED <<cache_file, cache, cghost, clast, now>>
    /\ UNCHANGED nonCacheVars

\* the days a caller passes as max_age_days
TtlDays == 0..MaxDays

\* the clock readings around the expiry of an entry made at 0 or 1
ClockValues ==
    {1, 2} \cup {n * 86400 + d : n \in 1..MaxDays, d \in {-1, 0, 1}}

\* the hashes a caller passes as new_hash
NewHashes == {CalculateHash(y) : y \in {<<>>, <<97>>, <<98, 97>>}}

\* time passes up to a later reading
QueryTick ==
    /\ \E t \in ClockValues : t > now /\ now' = t
    /\ UNCHANGED cacheVars
    /\ UNCHANGED nonCacheVars

\* time passes
CacheTick ==
    /\ now < MaxTime
    /\ now' = now + 1
    /\ UNCHANGED cacheVars
    /\ UNCHANGED nonCacheVars

(***************************************************************************)
(* parser/extractor.rs: a syntax tree is a node with a kind, a name and    *)
(* the nodes below it.                                                     *)
(***************************************************************************)
Node(kind, name, kids) == [kind |-> kind, name |-> name, kids |-> kids]

Identifier(name) == Node("Identifier", name, <<>>)

StringLiteral(value) == Node("StringLiteral", value, <<>>)

\* callee(arguments)
CallExpression(callee, arguments) == Node("CallExpression", "", <<callee>> \o arguments)

\* ...argument
SpreadElement(argument) == Node("SpreadElement", "", <<argument>>)

RECURSIVE VisitExpression(_)
RECURSIVE VisitStatement(_)
RECURSIVE VisitCallExpression(_)

\* the arm of an argument or array element: a spread is visited through its
\* argument, an elision is skipped
VisitElement(elem) ==
    IF elem.kind = "SpreadElement" THEN VisitExpression(elem.kids[1])
    ELSE IF elem.kind = "Elision" THEN {}
    ELSE VisitExpression(elem)

\* for x in list { self.visit_expression(x) }
VisitExpressions(list) == UNION {VisitExpression(list[i]) : i \in 1..Len(list)}

\* for stmt in list { self.visit_statement(stmt) }
VisitStatements(list) == UNION {VisitStatement(list[i]) : i \in 1..Len(list)}

\* ActionRefExtractor::visit_declaration
VisitDeclaration(decl) ==
    CASE decl.kind = "VariableDeclaration" -> VisitExpressions(decl.kids)
      [] decl.kind = "FunctionDeclaration" -> VisitStatements(decl.kids)
      [] OTHER -> {}

\* the arm of ChainExpression: of a member only the object is visited
VisitChainElement(element) ==
    CASE element.kind = "CallExpression" -> VisitCallExpression(element)
      [] element.kind = "TSNonNullExpression" -> VisitExpression(element.kids[1])
      [] element.kind \in {"ComputedMemberExpression", "StaticMemberExpression",
                           "PrivateFieldExpression"} ->
            VisitExpression(element.kids[1])
      [] OTHER -> {}

\* ActionRefExtractor::visit_expression: the references the visit inserts
VisitExpression(expr) ==
    CASE expr.kind = "CallExpression" -> VisitCallExpression(expr)
      [] expr.kind = "NewExpression" ->
            \* kids: the callee, then the arguments; only the arguments
            UNION {VisitElement(expr.kids[i]) : i \in 2..Len(expr.kids)}
      [] expr.kind = "ArrayExpression" ->
            UNION {VisitElement(expr.kids[i]) : i \in 1..Len(expr.kids)}
      [] expr.kind = "ObjectExpression" ->
            \* kids: ObjectProperty (key, value) or SpreadProperty (argument)
            UNION {VisitExpression(expr.kids[i].kids[Len(expr.kids[i].kids)]) :
                      i \in 1..Len(expr.kids)}
      [] expr.kind = "ArrowFunctionExpression" ->
            IF expr.name = "expression"
            THEN UNION {IF expr.kids[i].kind = "ExpressionStatement"
                        THEN VisitExpression(expr.kids[i].kids[1]) ELSE {} :
                           i \in 1..Len(expr.kids)}
            ELSE VisitStatements(expr.kids)
      [] expr.kind = "FunctionExpression" -> VisitStatements(expr.kids)
      [] expr.kind \in {"ParenthesizedExpression", "SequenceExpression",
                        "ConditionalExpression", "LogicalExpression",
                        "BinaryExpression", "UnaryExpression",
                        "ComputedMemberExpression", "StaticMemberExpression",
                        "PrivateFieldExpression", "AwaitExpression",
                        "YieldExpression", "TemplateLiteral",
                        "TaggedTemplateExpression"} ->
            \* kids: the operands the arm visits
            VisitExpressions(expr.kids)
      [] expr.kind = "AssignmentExpression" ->
            \* kids: left, right
            VisitExpression(expr.kids[2])
      [] expr.kind = "ChainExpression" -> VisitChainElement(expr.kids[1])
      [] OTHER -> {}

\* ActionRefExtractor::visit_call_expression; kids: the callee, then the
\* arguments
VisitCallExpression(call) ==
    LET callee == call.kids[1]
        found == IF /\ callee.kind = "Identifier"
                    /\ callee.name = "getAction"
                    /\ Len(call.kids) >= 2
                    /\ call.kids[2].kind = "StringLiteral"
                 THEN {call.kids[2].name}
                 ELSE {}
    IN found \cup VisitExpression(callee)
             \cup UNION {VisitElement(call.kids[i]) : i \in 2..Len(call.kids)}

\* ActionRefExtractor::visit_statement
VisitStatement(stmt) ==
    CASE stmt.kind = "VariableDeclaration" ->
            \* kids: the initializers of the declarators that have one
            VisitExpressions(stmt.kids)
      [] stmt.kind = "ExpressionStatement" -> VisitExpression(stmt.kids[1])
      [] stmt.kind = "ExportNamedDeclaration" ->
            IF stmt.kids = <<>> THEN {} ELSE VisitDeclaration(stmt.kids[1])
      [] stmt.kind = "ExportDefaultDeclaration" ->
            \* as_expression() is None for a function or class declaration
            IF stmt.kids[1].kind \in {"FunctionDeclaration", "ClassDeclaration"}
            THEN {}
            ELSE VisitExpression(stmt.kids[1])
      [] stmt.kind = "BlockStatement" -> VisitStatements(stmt.kids)
      [] stmt.kind = "IfStatement" ->
            \* kids: test, consequent and the alternate if there is one
            VisitExpression(stmt.kids[1])
              \cup UNION {VisitStatement(stmt.kids[i]) : i \in 2..Len(stmt.kids)}
      [] stmt.kind = "ForStatement" ->
            \* kids: init, test, update, body; only the body
            VisitStatement(stmt.kids[Len(stmt.kids)])
      [] stmt.kind = "WhileStatement" ->
            VisitExpression(stmt.kids[1]) \cup VisitStatement(stmt.kids[2])
      [] stmt.kind = "ReturnStatement" -> VisitExpressions(stmt.kids)
      [] OTHER -> {}

\* ActionRefExtractor::visit_program
VisitProgram(body) == VisitStatements(body)

\* getAction("<ref>")
GetAction(ref) == CallExpression(Identifier("getAction"), <<StringLiteral(ref)>>)

\* expressions without an expression below them that can hold a reference:
\* recognized calls, a call of another function and a getAction call on a
\* variable
LeafExpressions ==
    {GetAction(r) : r \in Refs}
      \cup {Identifier("x"),
            CallExpression(Identifier("g"), <<StringLiteral("r1")>>),
            CallExpression(Identifier("getAction"), <<Identifier("x")>>)}

\* an expression e inside one call argument, array, object literal value,
\* arrow or function body, await, chain or sequence
Containers(e) ==
    {CallExpression(Identifier("f"), <<e>>),
     CallExpression(Identifier("f"), <<Identifier("x"), SpreadElement(e)>>),
     CallExpression(e, <<Node("ObjectExpression", "", <<>>)>>),
     Node("ArrayExpression", "", <<e>>),
     Node("ArrayExpression", "", <<Node("Elision", "", <<>>), SpreadElement(e)>>),
     Node("ObjectExpression", "",
          <<Node("ObjectProperty", "", <<Identifier("k"), e>>)>>),
     Node("ObjectExpression", "", <<Node("SpreadProperty", "", <<e>>)>>),
     Node("ArrowFunctionExpression", "expression",
          <<Node("ExpressionStatement", "", <<e>>)>>),
     Node("ArrowFunctionExpression", "block",
          <<Node("ReturnStatement", "", <<e>>)>>),
     Node("FunctionExpression", "",
          <<Node("VariableDeclaration", "", <<e>>),
            Node("ReturnStatement", "", <<>>)>>),
     Node("AwaitExpression", "", <<e>>),
     Node("ChainExpression", "", <<CallExpression(e, <<>>)>>),
     Node("ChainExpression", "", <<CallExpression(Identifier("f"), <<e>>)>>),
     Node("ChainExpression", "", <<Node("StaticMemberExpression", "p", <<e>>)>>),
     Node("ChainExpression", "",
          <<Node("ComputedMemberExpression", "", <<e, Identifier("x")>>)>>),
     Node("ChainExpression", "",
          <<Node("ComputedMemberExpression", "", <<Identifier("x"), e>>)>>),
     Node("SequenceExpression", "", <<Identifier("x"), e>>)}
      \cup {Node("SequenceExpression", "", <<e, l>>) : l \in LeafExpressions}
      \cup {Node("ArrayExpression", "", <<l, e>>) : l \in LeafExpressions}

\* the expressions nested at most n containers deep
RECURSIVE Expressions(_)
Expressions(n) ==
    IF n = 0 THEN LeafExpressions
    ELSE LET below == Expressions(n - 1)
         IN below \cup UNION {Containers(e) : e \in below}

\* function f() { e; }
FunctionDeclaration(e) ==
    Node("FunctionDeclaration", "f", <<Node("ExpressionStatement", "", <<e>>)>>)

\* export <declaration>
ExportNamedDeclaration(decl) == Node("ExportNamedDeclaration", "", <<decl>>)

\* the scripts: one declaration, exported or not, or one expression
\* statement
Programs ==
    UNION {{<<Node("VariableDeclaration", "", <<e>>)>>,
            <<Node("ExpressionStatement", "", <<e>>)>>,
            <<Node("ExportDefaultDeclaration", "", <<e>>)>>,
            <<FunctionDeclaration(e)>>,
            <<ExportNamedDeclaration(FunctionDeclaration(e))>>} :
              e \in Expressions(MaxDepth)}

\* TypeScriptParser::extract_action_refs on a source without parse errors
ExtractActionRefs ==
    /\ ppc = "start"
    /\ action_refs' = VisitProgram(program)
    /\ ppc' = "done"
    /\ UNCHANGED program
    /\ UNCHANGED nonParseVars

(***************************************************************************)
(* generator/mod.rs: names.  An action reference, a file name and an       *)
(* interface name are sequences of characters; a token of several          *)
(* characters stands for a fixed piece of text.                            *)
(***************************************************************************)
\* char::to_uppercase on the characters of the model
ToUppercase(c) ==
    CASE c = "a" -> "A" [] c = "b" -> "B" [] c = "c" -> "C"
      [] c = "d" -> "D" [] c = "e" -> "E" [] c = "v" -> "V"
      [] OTHER -> c

\* char::to_lowercase on the characters of the model
ToLowercase(c) ==
    CASE c = "A" -> "a" [] c = "B" -> "b" [] c = "C" -> "c"
      [] c = "D" -> "d" [] c = "E" -> "e" [] c = "V" -> "v"
      [] OTHER -> c

\* the byte of a character
CharCode(c) ==
    CASE c = "-" -> 45 [] c = "." -> 46 [] c = "/" -> 47 [] c = "@" -> 64
      [] c = "A" -> 65 [] c = "B" -> 66 [] c = "C" -> 67 [] c = "D" -> 68
      [] c = "E" -> 69 [] c = "V" -> 86
      [] c = "a" -> 97 [] c = "b" -> 98 [] c = "c" -> 99 [] c = "d" -> 100
      [] c = "e" -> 101 [] c = "v" -> 118

\* str::cmp: left < right
RECURSIVE StrLess(_, _)
StrLess(left, right) ==
    IF right = <<>> THEN FALSE
    ELSE IF left = <<>> THEN TRUE
    ELSE IF left[1] = right[1] THEN StrLess(Tail(left), Tail(right))
    ELSE CharCode(left[1]) < CharCode(right[1])

\* str::replace(['/', '@', '.'], "-")
RECURSIVE ReplaceSeparators(_)
ReplaceSeparators(str) ==
    IF str = <<>> THEN <<>>
    ELSE <<IF str[1] \in {"/", "@", "."} THEN "-" ELSE str[1]>>
           \o ReplaceSeparators(Tail(str))

\* action_ref_to_filename
ActionRefToFilename(action_ref) == ReplaceSeparators(action_ref) \o <<".d.ts">>

\* str::trim_end_matches(".d.ts")
RECURSIVE TrimEndMatchesDts(_)
TrimEndMatchesDts(str) ==
    IF str # <<>> /\ str[Len(str)] = ".d.ts"
    THEN TrimEndMatchesDts(SubSeq(str, 1, Len(str) - 1))
    ELSE str

\* action_ref_to_module_name
ActionRefToModuleName(action_ref) == TrimEndMatchesDts(ActionRefToFilename(action_ref))

\* action_ref_to_interface_name: the pieces between the separators, the
\* empty ones dropped, each with its first character in upper case, joined;
\* atStart says that the next character begins a piece
RECURSIVE PascalCase(_, _)
PascalCase(str, atStart) ==
    IF str = <<>> THEN <<>>
    ELSE IF str[1] \in {"/", "@", "-", "."} THEN PascalCase(Tail(str), TRUE)
    ELSE <<IF atStart THEN ToUppercase(str[1]) ELSE str[1]>>
           \o PascalCase(Tail(str), FALSE)

ActionRefToInterfaceName(action_ref) == PascalCase(action_ref, TRUE)

(***************************************************************************)
(* fetcher.rs: ActionMetadata; generator/types.rs: the declaration text.   *)
(* A HashMap is a function on its keys; the order in which a loop visits   *)
(* it is an argument of the operator that models the loop.                 *)
(***************************************************************************)
\* Option::None of a text field
None == "<None>"

\* an Option<HashMap<..>>: Some(map) or None
SomeMap(map) == [some |-> TRUE, map |-> map]

NoneMap == [some |-> FALSE, map |-> <<>>]

\* the keys of the map, none for None
MapKeys(m) == IF m.some THEN DOMAIN m.map ELSE {}

ActionInput(description, required, default, deprecation_message) ==
    [description |-> description, required |-> required, default |-> default,
     deprecation_message |-> deprecation_message]

ActionOutput(description) == [description |-> description]

\* the action.yml documents of the model
MetaCheckout ==
    [name |-> "Checkout", description |-> "Checkout a Git repository",
     inputs |-> SomeMap([n \in {"repository", "fetch-depth"} |->
                  IF n = "repository"
                  THEN ActionInput("Repository name", "false",
                                   "${{ github.repository }}", None)
                  ELSE ActionInput(None, "true", "1", "use depth")]),
     outputs |-> SomeMap([n \in {"ref", "commit"} |->
                  IF n = "ref" THEN ActionOutput("The ref") ELSE ActionOutput(None)])]

MetaDeploy ==
    [name |-> "Deploy", description |-> None,
     inputs |-> NoneMap,
     outputs |-> SomeMap([n \in {"my-out"} |-> ActionOutput(None)])]

MetaPlain ==
    [name |-> "Plain", description |-> None, inputs |-> NoneMap, outputs |-> NoneMap]

MetaEmpty ==
    [name |-> "Empty", description |-> "No fields",
     inputs |-> SomeMap(<<>>), outputs |-> SomeMap(<<>>)]

\* the action references of the model: a/b@v, a/b-c@v, a/b/c@v, d/e@v
RefAB == <<"a", "/", "b", "@", "v">>

RefABdashC == <<"a", "/", "b", "-", "c", "@", "v">>

RefABslashC == <<"a", "/", "b", "/", "c", "@", "v">>

RefDE == <<"d", "/", "e", "@", "v">>

GenRefs == {RefAB, RefABdashC, RefABslashC, RefDE}

\* the metadata the fetcher returns for a reference
MetadataOf(action_ref) ==
    CASE action_ref = RefAB -> MetaCheckout
      [] action_ref = RefABdashC -> MetaDeploy
      [] action_ref = RefABslashC -> MetaPlain
      [] OTHER -> MetaEmpty

\* the orders in which a loop can visit a HashMap or HashSet with the keys S
IterationOrders(S) ==
    {f \in [1..Cardinality(S) -> S] : \A x \in S : \E i \in DOMAIN f : f[i] = x}

\* name.contains('-') || name.contains('.') on the names of the model
HasDashOrDot(name) == name \in {"fetch-depth", "my-out"}

\* the field name of a declaration, quoted when it has special characters
FieldName(name) == IF HasDashOrDot(name) THEN <<"'", name, "'">> ELSE <<name>>

\* infer_type_from_input on the defaults of the model
InferTypeFromInput(input) ==
    IF input.default = None THEN "string"
    ELSE IF input.default \in {"true", "false"} THEN "boolean"
    ELSE IF input.default \in {"1"} THEN "number"
    ELSE "string"

\* generate_input_field; a description of the model has one line
GenerateInputField(name, input) ==
    <<"    /**\n">>
      \o (IF input.description # None
          THEN <<"     * ", input.description, "\n">> ELSE <<>>)
      \o (IF input.default # None
          THEN <<"     * @default ", input.default, "\n">> ELSE <<>>)
      \o (IF input.deprecation_message # None
          THEN <<"     * @deprecated ", input.deprecation_message, "\n">> ELSE <<>>)
      \o <<"     */\n", "    ">>
      \o FieldName(name)
      \o <<IF input.required = "true" THEN "" ELSE "?", ": ",
           InferTypeFromInput(input), ";\n">>

\* interface_name.to_lowercase().replace("v", "/v")
RECURSIVE SeeName(_)
SeeName(str) ==
    IF str = <<>> THEN <<>>
    ELSE (IF ToLowercase(str[1]) = "v" THEN <<"/", "v">> ELSE <<ToLowercase(str[1])>>)
           \o SeeName(Tail(str))

\* for (name, input) in inputs, visited in the given order
RECURSIVE InputFields(_, _)
InputFields(inputs, order) ==
    IF order = <<>> THEN <<>>
    ELSE GenerateInputField(order[1], inputs[order[1]])
           \o InputFields(inputs, Tail(order))

\* generate_inputs_interface
GenerateInputsInterface(interface_name, metadata, order) ==
    <<"/**\n * ",
      IF metadata.description # None THEN metadata.description ELSE metadata.name,
      "\n", " * @see https://github.com/">>
      \o SeeName(interface_name)
      \o <<"\n */\n", "export interface ">>
      \o interface_name
      \o <<"Inputs {\n">>
      \o (IF metadata.inputs.some THEN InputFields(metadata.inputs.map, order)
          ELSE <<>>)
      \o <<"}">>

\* for (name, action_output) in outputs, visited in the given order
RECURSIVE OutputFields(_, _)
OutputFields(action_outputs, order) ==
    IF order = <<>> THEN <<>>
    ELSE (IF action_outputs[order[1]].description # None
          THEN <<"    /**\n", "     * ", action_outputs[order[1]].description, "\n",
                 "     */\n">>
          ELSE <<>>)
           \o <<"    ">> \o FieldName(order[1]) \o <<": string;\n">>
           \o OutputFields(action_outputs, Tail(order))

\* generate_outputs_interface
GenerateOutputsInterface(interface_name, action_outputs, order) ==
    <<"export interface ">> \o interface_name \o <<"Outputs {\n">>
      \o OutputFields(action_outputs, order)
      \o <<"}">>

\* generate_type_definition, with the orders in which the two maps are
\* visited
GenerateTypeDefinition(action_ref, metadata, inputOrder, outputOrder) ==
    LET interface_name == ActionRefToInterfaceName(action_ref)
    IN <<"// Auto-generated from ">> \o action_ref
         \o <<"\n// Do not edit manually\n\n",
              "import type { JobStep } from './base';\n\n">>
         \o GenerateInputsInterface(interface_name, metadata, inputOrder)
         \o <<"\n\n">>
         \o (IF metadata.outputs.some /\ MapKeys(metadata.outputs) # {}
             THEN GenerateOutputsInterface(interface_name, metadata.outputs.map,
                                           outputOrder)
                    \o <<"\n\n">>
             ELSE <<>>)

(***************************************************************************)
(* generator/mod.rs: generate_types_for_refs.                              *)
(***************************************************************************)
\* the position of an output or input name in the order of str::cmp
NameRank(name) ==
    CASE name = "commit" -> 1 [] name = "fetch-depth" -> 2 [] name = "my-out" -> 3
      [] name = "ref" -> 4 [] name = "repository" -> 5

\* output_names.sort() on the collected keys
SortedNames(S) ==
    CHOOSE f \in IterationOrders(S) :
        \A i, j \in DOMAIN f : i < j => NameRank(f[i]) < NameRank(f[j])

\* ActionTypeInfo of generate_type_from_metadata
ActionTypeInfo(action_ref, metadata) ==
    LET output_names == SortedNames(MapKeys(metadata.outputs))
    IN [action_ref |-> action_ref,
        interface_name |-> ActionRefToInterfaceName(action_ref),
        module_name |-> ActionRefToModuleName(action_ref),
        has_outputs |-> output_names # <<>>,
        output_names |-> output_names]

\* the place of info in a list sorted by action_ref: after the infos that
\* are not greater
RECURSIVE InsertByActionRef(_, _)
InsertByActionRef(sorted, info) ==
    IF sorted = <<>> THEN <<info>>
    ELSE IF StrLess(info.action_ref, sorted[1].action_ref)
    THEN <<info>> \o sorted
    ELSE <<sorted[1]>> \o InsertByActionRef(Tail(sorted), info)

\* sorted_infos.sort_by(|left, right| left.action_ref.cmp(&right.action_ref))
RECURSIVE SortByActionRef(_)
SortByActionRef(infos) ==
    IF infos = <<>> THEN <<>>
    ELSE InsertByActionRef(SortByActionRef(SubSeq(infos, 1, Len(infos) - 1)),
                           infos[Len(infos)])

\* generate_index_dts: the import or export line of one reference
TypeLine(keyword, info) ==
    (IF info.has_outputs
     THEN <<keyword, " type { ">> \o info.interface_name \o <<"Inputs, ">>
            \o info.interface_name \o <<"Outputs } from './">>
     ELSE <<keyword, " type { ">> \o info.interface_name \o <<"Inputs } from './">>)
      \o info.module_name \o <<"';", "\n">>

\* generate_index_dts: the getAction overload of one reference
Overload(info) ==
    IF info.has_outputs
    THEN <<"export declare function getAction(\n    ref: '">> \o info.action_ref
           \o <<"'\n): {\n    <Id extends string>(config: { id: Id; with?: ">>
           \o info.interface_name \o <<"Inputs; .. }): ActionStep<">>
           \o info.interface_name \o <<"Outputs, Id>;\n    (config?: { with?: ">>
           \o info.interface_name \o <<"Inputs; .. }): JobStep;\n};\n">>
    ELSE <<"export declare function getAction(\n    ref: '">> \o info.action_ref
           \o <<"'\n): (config?: {\n    with?: ">>
           \o info.interface_name \o <<"Inputs;\n    ..\n}) => JobStep;\n">>

RECURSIVE TypeLines(_, _)
TypeLines(keyword, infos) ==
    IF infos = <<>> THEN <<>>
    ELSE TypeLine(keyword, infos[1]) \o TypeLines(keyword, Tail(infos))

RECURSIVE Overloads(_)
Overloads(infos) ==
    IF infos = <<>> THEN <<>> ELSE Overload(infos[1]) \o Overloads(Tail(infos))

\* generate_index_dts: the content of index.d.ts
GenerateIndexDts(infos) ==
    LET sorted_infos == SortByActionRef(infos)
    IN <<"// Auto-generated by gaji\n// Do not edit manually\n\n",
         "import type { JobStep, .. } from './base';\n">>
         \o TypeLines("import", sorted_infos)
         \o <<"\n">>
         \o Overloads(sorted_infos)
         \o <<"GET_ACTION_FALLBACK_DECL_TEMPLATE", "CLASS_DECLARATIONS_TEMPLATE",
              "\nexport type { JobStep, .. } from './base';\n">>
         \o TypeLines("export", sorted_infos)

\* names.join(", ") of the quoted names
RECURSIVE QuotedNames(_)
QuotedNames(names) ==
    IF names = <<>> THEN <<>>
    ELSE <<"'", names[1], "'">>
           \o (IF Len(names) > 1 THEN <<", ">> ELSE <<>>)
           \o QuotedNames(Tail(names))

\* generate_index_js: the registry lines
RECURSIVE RegistryLines(_)
RegistryLines(infos) ==
    IF infos = <<>> THEN <<>>
    ELSE (IF infos[1].output_names # <<>>
          THEN <<"    '">> \o infos[1].action_ref \o <<"': [">>
                 \o QuotedNames(infos[1].output_names) \o <<"],\n">>
          ELSE <<>>)
           \o RegistryLines(Tail(infos))

\* generate_index_js: the content of index.js
GenerateIndexJs(infos) ==
    LET sorted_infos == SortByActionRef(infos)
    IN <<"// Auto-generated by gaji\n// Do not edit manually\n\n",
         "var __action_outputs = {\n">>
         \o RegistryLines(sorted_infos)
         \o <<"};\n", "GET_ACTION_RUNTIME_TEMPLATE", "JOB_WORKFLOW_RUNTIME_TEMPLATE",
              "\n">>

BasePath == <<"base.d.ts">>

IndexDtsPath == <<"index.d.ts">>

IndexJsPath == <<"index.js">>

OldIndexTsPath == <<"index.ts">>

\* the files of the output directory
GenPaths ==
    {ActionRefToFilename(r) : r \in GenRefs}
      \cup {BasePath, IndexDtsPath, IndexJsPath, OldIndexTsPath}

NoFileText == [exists |-> FALSE, text |-> <<>>]

FileText(text) == [exists |-> TRUE, text |-> text]

\* fetch_action_metadata_batch(action_refs, 10): one result per reference of
\* the HashSet; the fetches run in parallel with at most ten in flight, so
\* the results are paired with the references in any order
FetchActionMetadataBatch(refs) == IterationOrders(refs)

\* generate_types_for_refs up to the loop: the directory, base.d.ts and the
\* batch of fetches
GenerateTypesForRefs ==
    /\ gpc \in {"ready", "done"}
    /\ g_run < MaxRuns
    /\ gpc' = "loop"
    /\ g_prev' = gen_dir
    /\ gen_dir' = [gen_dir EXCEPT ![BasePath] = FileText(<<"BASE_TYPES_TEMPLATE">>)]
    /\ generated_files' = <<BasePath>>
    /\ action_infos' = <<>>
    /\ fetch_results' \in FetchActionMetadataBatch(g_refs)
    /\ step' = NoStep
    /\ UNCHANGED <<g_refs, g_fail, g_run>>
    /\ UNCHANGED nonGenVars

\* one iteration of `for (action_ref, result) in fetch_results`, arm
\* Ok(metadata): generate_type_from_metadata writes the declaration file
GenerateTypeFromMetadata ==
    /\ gpc = "loop"
    /\ fetch_results # <<>>
    /\ Head(fetch_results) \notin g_fail
    /\ LET action_ref == Head(fetch_results)
           metadata == MetadataOf(action_ref)
           file_path == ActionRefToFilename(action_ref)
       IN /\ \E inputOrder \in IterationOrders(MapKeys(metadata.inputs)),
                outputOrder \in IterationOrders(MapKeys(metadata.outputs)) :
                gen_dir' = [gen_dir EXCEPT ![file_path] =
                              FileText(GenerateTypeDefinition(action_ref, metadata,
                                                              inputOrder, outputOrder))]
          /\ generated_files' = Append(generated_files, file_path)
          /\ action_infos' = Append(action_infos, ActionTypeInfo(action_ref, metadata))
    /\ fetch_results' = Tail(fetch_results)
    /\ UNCHANGED <<gpc, g_refs, g_fail, g_prev, g_run, step>>
    /\ UNCHANGED nonGenVars

\* a variant that lists the failed reference in the index all the same
FetchFailedListed ==
    /\ gpc = "loop"
    /\ fetch_results # <<>>
    /\ Head(fetch_results) \in g_fail
    /\ fetch_results' = Tail(fetch_results)
    /\ action_infos' = Append(action_infos,
                              ActionTypeInfo(Head(fetch_results),
                                             MetadataOf(Head(fetch_results))))
    /\ UNCHANGED <<gpc, g_refs, g_fail, generated_files, gen_dir, g_prev, g_run, step>>
    /\ UNCHANGED nonGenVars

\* one iteration of the loop, arm Err(e): the failure is printed
FetchFailed ==
    /\ gpc = "loop"
    /\ fetch_results # <<>>
    /\ Head(fetch_results) \in g_fail
    /\ fetch_results' = Tail(fetch_results)
    /\ UNCHANGED <<gpc, g_refs, g_fail, action_infos, generated_files, gen_dir,
                   g_prev, g_run, step>>
    /\ UNCHANGED nonGenVars

\* one iteration of the loop, arm Ok(metadata) with generate_type_from_metadata
\* returning Err: fs::write could not create the file; the failure is printed
GenerateTypeFailed ==
    /\ gpc = "loop"
    /\ fetch_results # <<>>
    /\ Head(fetch_results) \in g_fail
    /\ fetch_results' = Tail(fetch_results)
    /\ UNCHANGED <<gpc, g_refs, g_fail, action_infos, generated_files, gen_dir,
                   g_prev, g_run, step>>
    /\ UNCHANGED nonGenVars

\* after the loop: index.ts is removed, index.d.ts and index.js are written
\* and Ok(generated_files) is returned
GenerateIndex ==
    /\ gpc = "loop"
    /\ fetch_results = <<>>
    /\ gen_dir' = [gen_dir EXCEPT
                     ![OldIndexTsPath] = NoFileText,
                     ![IndexDtsPath] = FileText(GenerateIndexDts(action_infos)),
                     ![IndexJsPath] = FileText(GenerateIndexJs(action_infos))]
    /\ gpc' = "done"
    /\ g_run' = g_run + 1
    /\ UNCHANGED <<g_refs, g_fail, fetch_results, action_infos, generated_files,
                   g_prev, step>>
    /\ UNCHANGED nonGenVars

(***************************************************************************)
(* generator/templates.rs: GET_ACTION_RUNTIME_TEMPLATE, the getAction that *)
(* index.js defines, run on the registry index.js holds.                   *)
(***************************************************************************)
\* the names of a registry line from position j up to the closing bracket
RECURSIVE NamesUntilClose(_, _)
NamesUntilClose(text, j) ==
    IF j > Len(text) \/ text[j] = "],\n" THEN <<>>
    ELSE (IF text[j] \in {"'", ", "} THEN <<>> ELSE <<text[j]>>)
           \o NamesUntilClose(text, j + 1)

\* __action_outputs[ref] as the text of index.js defines it
ActionOutputs(text, ref) ==
    LET key == <<"    '">> \o ref \o <<"': [">>
        starts == {i \in 1..Len(text) :
                      /\ i + Len(key) - 1 <= Len(text)
                      /\ SubSeq(text, i, i + Len(key) - 1) = key}
    IN IF starts = {} THEN [defined |-> FALSE, names |-> <<>>]
       ELSE [defined |-> TRUE,
             names |-> NamesUntilClose(text, (CHOOSE i \in starts : TRUE) + Len(key))]

\* "${{ steps." + config.id + ".outputs." + outputNames[i] + " }}"
OutputExpression(id, name) == <<"${{ steps.", id, ".outputs.", name, " }}">>

\* getAction(ref)(config); a variant that fills the outputs whenever
\* config.id is defined
GetActionRuntimeDefinedId(text, ref, config) ==
    LET cfg == IF config.given THEN config ELSE NoConfig
        outputNames == ActionOutputs(text, ref)
    IN [uses |-> ref, name |-> cfg.name, with |-> cfg.with, id |-> cfg.id,
        if |-> cfg.if, env |-> cfg.env,
        outputs |-> IF outputNames.defined /\ cfg.id # Undefined
                    THEN [n \in {outputNames.names[i] : i \in DOMAIN outputNames.names}
                            |-> OutputExpression(cfg.id, n)]
                    ELSE <<>>]

\* getAction(ref)(config): the step, a field that is not set being undefined
GetActionRuntime(text, ref, config) ==
    LET cfg == IF config.given THEN config ELSE NoConfig
        outputNames == ActionOutputs(text, ref)
    IN [uses |-> ref, name |-> cfg.name, with |-> cfg.with, id |-> cfg.id,
        if |-> cfg.if, env |-> cfg.env,
        outputs |-> IF outputNames.defined /\ cfg.id \notin {Undefined, ""}
                    THEN [n \in {outputNames.names[i] : i \in DOMAIN outputNames.names}
                            |-> OutputExpression(cfg.id, n)]
                    ELSE <<>>]

\* the configs a script passes: none, {}, {id: ""}, {id: "co", name: "n"}
Configs ==
    {[NoConfig EXCEPT !.given = FALSE],
     NoConfig,
     [NoConfig EXCEPT !.id = ""],
     [NoConfig EXCEPT !.id = "co", !.name = "n"]}

\* a script calls getAction(ref)(config) on the generated index.js
BuildStep ==
    /\ gpc = "done"
    /\ \E ref \in GenRefs, config \in Configs :
          step' = [made |-> TRUE, ref |-> ref, config |-> config,
                   built |-> GetActionRuntime(gen_dir[IndexJsPath].text, ref, config)]
    /\ UNCHANGED <<gpc, g_refs, g_fail, fetch_results, action_infos, generated_files,
                   gen_dir, g_prev, g_run>>
    /\ UNCHANGED nonGenVars

(***************************************************************************)
(* watcher.rs: the loop of watch_paths over the channel the file watcher   *)
(* sends its results into.  The channel is unbounded: results sent while   *)
(* the loop is inside handle_event wait in it.  handle_event (analyse the  *)
(* files of the event, generate the types of new references) is one run    *)
(* that takes time and returns Ok or Err.                                  *)
(***************************************************************************)
\* DEBOUNCE_DURATION, in milliseconds
DEBOUNCE_DURATION == 300

\* the steps by which the clock of the model advances, in milliseconds
ClockSteps == {100}

\* gaji_config.watch.ignored_patterns
IgnoredPatterns == {"node_modules"}

\* a path of an event: directory, file stem, extension
WatchPath(dir, stem, ext) == [dir |-> dir, stem |-> stem, ext |-> ext]

\* Ok(event); n and sent are history: the number of the result and the
\* instant it was sent
WatchEvent(kind, paths) ==
    [ok |-> TRUE, kind |-> kind, paths |-> paths, n |-> 0, sent |-> 0]

\* Err(e)
WatchError == [WatchEvent("Other", <<>>) EXCEPT !.ok = FALSE]

\* the results the file watcher sends
WatchResults ==
    {WatchEvent("Create", <<WatchPath("workflows", "ci", "ts")>>),
     WatchEvent("Modify", <<WatchPath("node_modules", "index", "ts"),
                            WatchPath("workflows", "page", "tsx")>>),
     WatchEvent("Modify", <<WatchPath("node_modules", "index", "ts"),
                            WatchPath("src", "main", "rs")>>),
     WatchEvent("Remove", <<WatchPath("workflows", "ci", "ts")>>),
     WatchError}

\* should_process_event: a Create or Modify event with a .ts or .tsx path
\* that no ignored pattern occurs in
ShouldProcessEvent(event) ==
    /\ event.kind \in {"Create", "Modify"}
    /\ \E i \in DOMAIN event.paths :
          /\ event.paths[i].ext \in {"ts", "tsx"}
          /\ event.paths[i].dir \notin IgnoredPatterns

\* last.elapsed() < DEBOUNCE_DURATION at the instant t
Debounced(last, t) == last.some /\ t - last.at < DEBOUNCE_DURATION

\* a variant that starts handle_event without waiting for it
SpawnHandleEvent(pc) == pc

\* handle_event(&event).await: the loop is inside the handler until it returns
AwaitHandleEvent(pc) == "handle"

\* what the loop did with a result it took at the instant `at`, last_event
\* being `last`: verdict is "error", "dropped", "skipped", "handling",
\* "handled" or "failed"
LogEntry(res, last, at, verdict) ==
    [n |-> res.n, ok |-> res.ok, sent |-> res.sent, last |-> last, at |-> at,
     verdict |-> verdict, returned |-> 0]

\* the notify thread sends a result into the channel
Notify ==
    /\ kpc # "off"
    /\ sent_count < MaxEvents
    /\ \E res \in WatchResults :
          rx' = Append(rx, [res EXCEPT !.n = sent_count + 1, !.sent = instant])
    /\ sent_count' = sent_count + 1
    /\ UNCHANGED <<kpc, last_event, instant, in_flight, event_log>>
    /\ UNCHANGED nonWatchVars

\* time passes while the loop is inside handle_event or blocked on the empty
\* channel; a result that finds the loop blocked is taken at once
Elapse ==
    /\ kpc = "handle" \/ (kpc = "recv" /\ rx = <<>>)
    /\ \E d \in ClockSteps :
          /\ instant + d <= MaxInstant
          /\ instant' = instant + d
    /\ UNCHANGED <<kpc, rx, last_event, sent_count, in_flight, event_log>>
    /\ UNCHANGED nonWatchVars

\* `for res in rx`, arm Err(e): the error is printed
RecvError ==
    /\ kpc = "recv"
    /\ rx # <<>>
    /\ ~Head(rx).ok
    /\ rx' = Tail(rx)
    /\ event_log' = Append(event_log, LogEntry(Head(rx), last_event, instant, "error"))
    /\ UNCHANGED <<kpc, last_event, instant, sent_count, in_flight>>
    /\ UNCHANGED nonWatchVars

\* arm Ok(event), inside the debounce window: `continue`
RecvDebounced ==
    /\ kpc = "recv"
    /\ rx # <<>>
    /\ Head(rx).ok
    /\ Debounced(last_event, instant)
    /\ rx' = Tail(rx)
    /\ event_log' = Append(event_log, LogEntry(Head(rx), last_event, instant, "dropped"))
    /\ UNCHANGED <<kpc, last_event, instant, sent_count, in_flight>>
    /\ UNCHANGED nonWatchVars

\* arm Ok(event), outside the window, should_process_event false
RecvSkipped ==
    /\ kpc = "recv"
    /\ rx # <<>>
    /\ Head(rx).ok
    /\ ~Debounced(last_event, instant)
    /\ ~ShouldProcessEvent(Head(rx))
    /\ rx' = Tail(rx)
    /\ last_event' = SomeInstant(instant)
    /\ event_log' = Append(event_log, LogEntry(Head(rx), last_event, instant, "skipped"))
    /\ UNCHANGED <<kpc, instant, sent_count, in_flight>>
    /\ UNCHANGED nonWatchVars

\* arm Ok(event), outside the window, should_process_event true:
\* handle_event is entered
RecvHandled ==
    /\ kpc = "recv"
    /\ rx # <<>>
    /\ Head(rx).ok
    /\ ~Debounced(last_event, instant)
    /\ ShouldProcessEvent(Head(rx))
    /\ rx' = Tail(rx)
    /\ last_event' = SomeInstant(instant)
    /\ kpc' = AwaitHandleEvent(kpc)
    /\ in_flight' = in_flight + 1
    /\ event_log' = Append(event_log, LogEntry(Head(rx), last_event, instant, "handling"))
    /\ UNCHANGED <<instant, sent_count>>
    /\ UNCHANGED nonWatchVars

\* handle_event returns Ok(()) or Err(e), which is printed
HandleEventReturn ==
    /\ in_flight > 0
    /\ \E i \in DOMAIN event_log, verdict \in {"handled", "failed"} :
          /\ event_log[i].verdict = "handling"
          /\ event_log' = [event_log EXCEPT ![i].verdict = verdict,
                                            ![i].returned = instant]
    /\ in_flight' = in_flight - 1
    /\ kpc' = "recv"
    /\ UNCHANGED <<rx, last_event, instant, sent_count>>
    /\ UNCHANGED nonWatchVars

(***************************************************************************)
(* fetcher.rs: ActionRef::parse.  A reference is the sequence of its       *)
(* characters.                                                             *)
(***************************************************************************)
\* the characters of the references of the model
RefChars == {"a", "/", "@"}

\* the references handed to ActionRef::parse
ActionRefStrings == UNION {[1..n -> RefChars] : n \in 0..MaxRefLen}

\* str::find(c): the position of the first c, 0 for none
Find(str, c) ==
    IF \E i \in DOMAIN str : str[i] = c
    THEN CHOOSE i \in DOMAIN str : str[i] = c /\ \A j \in 1..(i - 1) : str[j] # c
    ELSE 0

\* str::splitn(2, c): the text before the first c, then the text after it
SplitN2(str, c) ==
    IF Find(str, c) = 0 THEN <<str>>
    ELSE <<SubSeq(str, 1, Find(str, c) - 1), SubSeq(str, Find(str, c) + 1, Len(str))>>

\* str::split(c): the pieces between the occurrences of c, empty ones kept
RECURSIVE Split(_, _)
Split(str, c) ==
    IF Find(str, c) = 0 THEN <<str>>
    ELSE <<SubSeq(str, 1, Find(str, c) - 1)>>
           \o Split(SubSeq(str, Find(str, c) + 1, Len(str)), c)

\* [&str]::join(sep)
RECURSIVE Join(_, _)
Join(parts, sep) ==
    IF parts = <<>> THEN <<>>
    ELSE IF Len(parts) = 1 THEN parts[1]
    ELSE parts[1] \o <<sep>> \o Join(Tail(parts), sep)

\* Ok(ActionRef { owner, repo, path, ref_ })
ParsedRef(owner, repo, path, ref_) ==
    [status |-> "ok", owner |-> owner, repo |-> repo, path |-> path, ref_ |-> ref_,
     err |-> ""]

\* Err(anyhow!(msg))
ParseErr(msg) == [NotParsed EXCEPT !.status = "err", !.err = msg]

\* ActionRef::parse
ActionRefParse(action_ref) ==
    LET parts == SplitN2(action_ref, "@")
        path_parts == Split(parts[1], "/")
    IN IF Len(parts) # 2
       THEN ParseErr("Invalid action reference format")
       ELSE IF Len(path_parts) < 2
       THEN ParseErr("Invalid action reference: Expected at least owner/repo")
       ELSE ParsedRef(path_parts[1], path_parts[2],
                      IF Len(path_parts) > 2
                      THEN SomePath(Join(SubSeq(path_parts, 3, Len(path_parts)), "/"))
                      ELSE NoPath,
                      parts[2])

\* a caller parses a reference
Parse ==
    /\ apc = "start"
    /\ a_parsed' = ActionRefParse(a_ref)
    /\ apc' = "done"
    /\ UNCHANGED a_ref
    /\ UNCHANGED nonRefVars

(***************************************************************************)
(* generator/templates.rs: JOB_WORKFLOW_RUNTIME_TEMPLATE, StepBuilder and  *)
(* the steps() and outputs() methods of Job.  A step is its id and its     *)
(* outputs; outputs are a set of <<name, value>> pairs.                    *)
(***************************************************************************)
\* a step without outputs
NoOutputs == [defined |-> FALSE, entries |-> {}]

OutputsOf(entries) == [defined |-> TRUE, entries |-> entries]

\* the outputs of the steps handed to add
StepOutputs ==
    {NoOutputs, OutputsOf({}), OutputsOf({<<"ref", "v1">>}), OutputsOf({<<"ref", "v2">>})}

\* the steps handed to add or returned by a step callback
StepObjects == [id : StepIds \cup {NoStepId}, outputs : StepOutputs]

\* for (var key in outputs) collected[key] = outputs[key]
Collected(outs) == {<<e[1], e[2]>> : e \in outs.entries}

\* if (step.id && step.outputs) this._ctx[step.id] = collected
Collect(ctx, st) ==
    IF st.id # NoStepId /\ st.outputs.defined
    THEN [ctx EXCEPT ![st.id] = [present |-> TRUE,
                                 entries |-> Collected(st.outputs)]]
    ELSE ctx

\* Job.steps: new StepBuilder(), then the callback runs
StepsBegin ==
    /\ spc = "job"
    /\ s_runs < MaxStepsCalls
    /\ s_runs' = s_runs + 1
    /\ spc' = "steps"
    /\ s_steps' = <<>>
    /\ s_ctx' = EmptyCtx
    /\ s_calls' = <<>>
    /\ UNCHANGED <<s_adds, j_steps, j_ctx, j_out>>
    /\ UNCHANGED nonStepVars

\* StepBuilder.add; a variant that collects the outputs of the step before
\* it invokes the callback
AddCollectFirst(isFn, st) ==
    /\ spc = "steps"
    /\ s_adds < MaxAdds
    /\ s_adds' = s_adds + 1
    /\ s_calls' = IF isFn
                  THEN Append(s_calls, [before |-> Len(s_steps),
                                        ctx |-> Collect(s_ctx, st)])
                  ELSE s_calls
    /\ s_steps' = Append(s_steps, st)
    /\ s_ctx' = Collect(s_ctx, st)
    /\ UNCHANGED <<spc, s_runs, j_steps, j_ctx, j_out>>
    /\ UNCHANGED nonStepVars

\* StepBuilder.add: stepOrFn is the step, or a function that is called with
\* this._ctx and returns the step
Add(isFn, st) ==
    /\ spc = "steps"
    /\ s_adds < MaxAdds
    /\ s_adds' = s_adds + 1
    /\ s_calls' = IF isFn
                  THEN Append(s_calls, [before |-> Len(s_steps), ctx |-> s_ctx])
                  ELSE s_calls
    /\ s_steps' = Append(s_steps, st)
    /\ s_ctx' = Collect(s_ctx, st)
    /\ UNCHANGED <<spc, s_runs, j_steps, j_ctx, j_out>>
    /\ UNCHANGED nonStepVars

\* Job.steps: the callback has returned
StepsEnd ==
    /\ spc = "steps"
    /\ j_steps' = s_steps
    /\ j_ctx' = s_ctx
    /\ spc' = "job"
    /\ UNCHANGED <<s_steps, s_ctx, s_calls, s_adds, s_runs, j_out>>
    /\ UNCHANGED nonStepVars

\* Job.outputs: o is called with this._ctx when it is a function
Outputs(isFn) ==
    /\ spc = "job"
    /\ j_out' = IF isFn THEN [called |-> TRUE, ctx |-> j_ctx, steps |-> j_steps]
                ELSE NoOutputsCall
    /\ UNCHANGED <<spc, s_steps, s_ctx, s_calls, s_adds, s_runs, j_steps, j_ctx>>
    /\ UNCHANGED nonStepVars

(***************************************************************************)
(* fetcher.rs: fetch_action_yaml and fetch_with_retry.  What comes back    *)
(* for a request is a status with a readable body ("ok"), a success status *)
(* whose body cannot be read ("ok_unreadable"), 404 ("not_found"), 429     *)
(* ("too_many_requests"), any other status ("other") or an error of        *)
(* request.send() ("send_error").  The client gives up a request after 30  *)
(* seconds, so every request comes back.                                   *)
(***************************************************************************)
MAX_RETRIES == 3

Responses == {"ok", "ok_unreadable", "not_found", "too_many_requests", "other", "send_error"}

\* 2_u64.pow(retries)
RECURSIVE Pow2(_)
Pow2(n) == IF n = 0 THEN 1 ELSE 2 * Pow2(n - 1)

\* the arms of fetch_with_retry that go round the loop again; a variant
\* that retries after every status that is not a success
ShouldRetryAnyStatus(response, retries) ==
    /\ response \in {"not_found", "too_many_requests", "other", "send_error"}
    /\ retries < MAX_RETRIES

\* the arms of fetch_with_retry that go round the loop again
ShouldRetry(response, retries) ==
    /\ response \in {"too_many_requests", "send_error"}
    /\ retries < MAX_RETRIES

\* what fetch_with_retry returns when it does not go round again
Returned(response) ==
    CASE response = "ok" -> [status |-> "ok", err |-> ""]
      [] response = "ok_unreadable" -> [status |-> "err", err |-> "Failed to read response"]
      [] response = "not_found" -> [status |-> "err", err |-> "Action not found"]
      [] response = "too_many_requests" -> [status |-> "err", err |-> "Rate limited after retries"]
      [] response = "other" -> [status |-> "err", err |-> "HTTP error"]
      [] response = "send_error" -> [status |-> "err", err |-> "Network error after retries"]

\* one turn of the loop of fetch_with_retry: the request is sent and what
\* comes back is matched; when the call for action.yml returns Err,
\* fetch_action_yaml calls fetch_with_retry for action.yaml
Send(response) ==
    /\ r_pc = "send"
    /\ r_log' = Append(r_log, [url |-> r_url, response |-> response])
    /\ IF ShouldRetry(response, r_retries)
       THEN /\ r_retries' = r_retries + 1
            /\ r_delay' = Pow2(r_retries + 1)
            /\ r_pc' = "sleep"
            /\ UNCHANGED <<r_url, r_rets>>
       ELSE /\ r_rets' = [r_rets EXCEPT ![r_url] = Returned(response)]
            /\ r_delay' = 0
            /\ IF r_url = 1 /\ Returned(response).status = "err"
               THEN r_url' = 2 /\ r_retries' = 0 /\ r_pc' = "send"
               ELSE r_pc' = "done" /\ UNCHANGED <<r_url, r_retries>>
    /\ UNCHANGED nonRetryVars

\* tokio::time::sleep(delay) is over
Sleep ==
    /\ r_pc = "sleep"
    /\ r_pc' = "send"
    /\ r_delay' = 0
    /\ UNCHANGED <<r_url, r_retries, r_log, r_rets>>
    /\ UNCHANGED nonRetryVars

(***************************************************************************)
(* Specification of one execute_js call on an arbitrary script.            *)
(***************************************************************************)
InitExec ==
    /\ epc = "start"
    /\ script \in Scripts
    /\ calls = <<>>
    /\ outputs = <<>>
    /\ holders = 1
    /\ ctx_alive = FALSE
    /\ rt_alive = FALSE
    /\ eresult = NoResult
    /\ BuildIdle
    /\ now = 0
    /\ ToolsIdle
    /\ WriteIdle
    /\ CacheIdle

NextExec == ExecStep

SpecExec == InitExec /\ [][NextExec]_vars

(***************************************************************************)
(* Specification of the build command on a directory with one source file  *)
(* that holds an arbitrary script.                                         *)
(***************************************************************************)
InitDriver(files, scripts) ==
    /\ ExecIdle
    /\ bpc = "cmd"
    /\ dry_run \in BOOLEAN
    /\ runtime_js_exists \in BOOLEAN
    /\ workflow_files = files
    /\ sources \in [Files -> scripts]
    /\ \A f \in Files : (\A i \in 1..Len(files) : files[i] # f) => sources[f] = <<>>
    /\ fidx = 1
    /\ build_outputs = <<>>
    /\ aidx = 1
    /\ output_paths = <<>>
    /\ wresult = NoWResult
    /\ built_files = <<>>
    /\ disk = [p \in Paths |-> NoFile]
    /\ now = 0
    /\ ToolsIdle
    /\ exit_code = -1
    /\ bw = NoBw
    /\ alog = <<>>
    /\ wlog = <<>>
    /\ WriteIdle
    /\ CacheIdle

InitBuild == InitDriver(<<"ci.ts">>, DriverScripts)

NextBuild ==
    \/ ExecStep
    \/ CmdBuild
    \/ CmdBuildFail
    \/ Tick
    \/ BuildWorkflowSandbox
    \/ ExecuteWorkflowFail
    \/ BuildWorkflowNoRuntime
    \/ SandboxReturned
    \/ ProcessArtifact
    \/ BuildWorkflowReturn
    \/ BuildAllCollect
    \/ BuildAllReturn

SpecBuild == InitBuild /\ [][NextBuild]_vars

(***************************************************************************)
(* Specification of the build command run and run again on a directory     *)
(* with one source file.                                                   *)
(***************************************************************************)
InitRebuild ==
    /\ InitDriver(<<"ci.ts">>, DriverScripts)
    /\ ~dry_run

NextRebuild ==
    \/ NextBuild
    \/ Rebuild

SpecRebuild == InitRebuild /\ [][NextRebuild]_vars

(***************************************************************************)
(* Specification of the build command on a directory with up to two source *)
(* files.                                                                  *)
(***************************************************************************)
InitBatch ==
    \E files \in {<<>>, <<"ci.ts">>, <<"ci.ts", "release.ts">>, <<"release.ts", "ci.ts">>} :
        InitDriver(files, Fixtures)

SpecBatch == InitBatch /\ [][NextBuild]_vars

(***************************************************************************)
(* Specification of one change check: an output file that is absent, that  *)
(* begins with a generated header, or that somebody else wrote, and a new   *)
(* YAML text.                                                              *)
(***************************************************************************)
InitWrite ==
    /\ ExecIdle
    /\ BuildIdle
    /\ CacheIdle
    /\ now \in 0..MaxTime
    /\ ToolsIdle
    /\ wpc = "start"
    /\ w_ret = FALSE
    /\ w_new \in SeqUpTo(NewAlphabet, MaxNew)
    /\ \/ /\ w_hdr = TRUE
          /\ w_body \in SeqUpTo(BodyAlphabet, MaxBody)
          /\ w_old = [exists |-> TRUE, text |-> Header("ci.ts", 0) \o w_body]
       \/ /\ w_hdr = FALSE
          /\ w_body \in SeqUpTo(BodyAlphabet, 2)
          /\ w_old = [exists |-> TRUE, text |-> w_body]
       \/ /\ w_hdr = FALSE
          /\ w_body = <<>>
          /\ w_old = NoFile
    /\ w_file = w_old

NextWrite == WriteCheck

SpecWrite == InitWrite /\ [][NextWrite]_vars

(***************************************************************************)
(* Specification of the cache file and the Cache handles of two processes. *)
(***************************************************************************)
\* an entry of a cache file written by an earlier run
OldEntry == [present |-> TRUE, content_hash |-> CalculateHash(<<97>>), generated_at |-> 0,
             metadata |-> "m1"]

InitCache ==
    /\ ExecIdle
    /\ BuildIdle
    /\ WriteIdle
    /\ now = 0
    /\ ToolsIdle
    /\ cache_file \in
          {[state |-> st, data |-> DefaultCacheData] : st \in {"missing", "unreadable", "malformed"}}
            \cup {[state |-> "valid", data |-> NewCacheData],
                  [state |-> "valid",
                   data |-> [NewCacheData EXCEPT !.entries["r1"] = OldEntry]]}
    /\ cache = [h \in Handles |-> NoHandle]
    /\ cghost = [h \in Handles |-> NoGhost]
    /\ clast = [h \in Handles |-> NoLast]
    /\ cret = NoQuery

NextCache ==
    \/ \E h \in Handles : LoadOrCreate(h)
    \/ \E h \in Handles, r \in Refs, f \in Fetched : Set(h, r, f)
    \/ \E h \in Handles, r \in Refs : Remove(h, r)
    \/ \E h \in Handles : Clear(h)
    \/ CacheTick

SpecCache == InitCache /\ [][NextCache]_vars

(***************************************************************************)
(* Specification of the queries on the Cache handles: the file was written *)
(* by earlier runs, the handles load it and are asked as time passes.      *)
(***************************************************************************)
\* the entry set("r2", "m2", ..) wrote at clock time 1
LaterEntry == [present |-> TRUE, content_hash |-> CalculateHash(<<98, 97>>),
               generated_at |-> 1, metadata |-> "m2"]

InitQuery ==
    /\ ExecIdle
    /\ BuildIdle
    /\ WriteIdle
    /\ now = 1
    /\ ToolsIdle
    /\ cache_file \in
          {[state |-> st, data |-> DefaultCacheData] : st \in {"missing", "malformed"}}
            \cup {[state |-> "valid", data |-> NewCacheData],
                  [state |-> "valid",
                   data |-> [NewCacheData EXCEPT !.entries["r1"] = OldEntry]],
                  [state |-> "valid",
                   data |-> [NewCacheData EXCEPT !.entries["r1"] = OldEntry,
                                                 !.entries["r2"] = LaterEntry]]}
    /\ cache = [h \in Handles |-> NoHandle]
    /\ cghost = [h \in Handles |-> NoGhost]
    /\ clast = [h \in Handles |-> NoLast]
    /\ cret = NoQuery

NextQuery ==
    \/ \E h \in Handles : LoadOrCreate(h)
    \/ \E h \in Handles, r \in Refs, n \in TtlDays : IsExpiredCall(h, r, n)
    \/ \E h \in Handles, r \in Refs, x \in NewHashes : ShouldRegenerateCall(h, r, x)
    \/ QueryTick

SpecQuery == InitQuery /\ [][NextQuery]_vars

(***************************************************************************)
(* Specification of one extract_action_refs call on an arbitrary script.   *)
(***************************************************************************)
InitParse ==
    /\ ExecIdle
    /\ BuildIdle
    /\ WriteIdle
    /\ CacheIdle
    /\ RebuildIdle
    /\ StepsIdle
    /\ RetryIdle
    /\ now = 0
    /\ ppc = "start"
    /\ program \in Programs
    /\ action_refs = {}
    /\ GenIdle
    /\ WatchIdle
    /\ RefIdle

NextParse == ExtractActionRefs

SpecParse == InitParse /\ [][NextParse]_vars

(***************************************************************************)
(* Specification of the generation runs over one output directory, with    *)
(* the same references and the same fetch results in every run, and of the *)
(* steps a script builds with the generated index.js.                      *)
(***************************************************************************)
InitGen ==
    /\ ExecIdle
    /\ BuildIdle
    /\ WriteIdle
    /\ CacheIdle
    /\ ParseIdle
    /\ WatchIdle
    /\ RefIdle
    /\ RebuildIdle
    /\ StepsIdle
    /\ RetryIdle
    /\ now = 0
    /\ gpc = "ready"
    /\ g_refs \in SUBSET GenRefs
    /\ g_fail \in SUBSET g_refs
    /\ fetch_results = <<>>
    /\ action_infos = <<>>
    /\ generated_files = <<>>
    /\ \E old \in {NoFileText, FileText(<<"old index">>)} :
          gen_dir = [p \in GenPaths |-> IF p = OldIndexTsPath THEN old ELSE NoFileText]
    /\ g_prev = [p \in GenPaths |-> NoFileText]
    /\ g_run = 0
    /\ step = NoStep

NextGen ==
    \/ GenerateTypesForRefs
    \/ GenerateTypeFromMetadata
    \/ FetchFailed
    \/ GenerateTypeFailed
    \/ GenerateIndex
    \/ BuildStep

SpecGen == InitGen /\ [][NextGen]_vars

(***************************************************************************)
(* Specification of the watch loop: results arrive at any instant, the     *)
(* handler takes any time.                                                 *)
(***************************************************************************)
InitWatch ==
    /\ ExecIdle
    /\ BuildIdle
    /\ WriteIdle
    /\ CacheIdle
    /\ ParseIdle
    /\ GenIdle
    /\ RefIdle
    /\ RebuildIdle
    /\ StepsIdle
    /\ RetryIdle
    /\ now = 0
    /\ kpc = "recv"
    /\ rx = <<>>
    /\ last_event = NoInstant
    /\ instant = 0
    /\ sent_count = 0
    /\ in_flight = 0
    /\ event_log = <<>>

NextWatch ==
    \/ Notify
    \/ Elapse
    \/ RecvError
    \/ RecvDebounced
    \/ RecvSkipped
    \/ RecvHandled
    \/ HandleEventReturn

SpecWatch == InitWatch /\ [][NextWatch]_vars

(***************************************************************************)
(* Specification of one ActionRef::parse call on an arbitrary reference.   *)
(***************************************************************************)
InitRef ==
    /\ ExecIdle
    /\ BuildIdle
    /\ WriteIdle
    /\ CacheIdle
    /\ ParseIdle
    /\ GenIdle
    /\ WatchIdle
    /\ RebuildIdle
    /\ StepsIdle
    /\ RetryIdle
    /\ now = 0
    /\ apc = "start"
    /\ a_ref \in ActionRefStrings
    /\ a_parsed = NotParsed

NextRef == Parse

SpecRef == InitRef /\ [][NextRef]_vars

(***************************************************************************)
(* Specification of the steps() and outputs() calls on one Job.            *)
(***************************************************************************)
InitSteps ==
    /\ ExecIdle
    /\ BuildIdle
    /\ WriteIdle
    /\ CacheIdle
    /\ ParseIdle
    /\ GenIdle
    /\ WatchIdle
    /\ RefIdle
    /\ RebuildIdle
    /\ StepsIdle
    /\ RetryIdle
    /\ now = 0

NextSteps ==
    \/ StepsBegin
    \/ \E isFn \in BOOLEAN : \E st \in StepObjects : Add(isFn, st)
    \/ StepsEnd
    \/ \E isFn \in BOOLEAN : Outputs(isFn)

SpecSteps == InitSteps /\ [][NextSteps]_vars

(***************************************************************************)
(* Specification of one fetch_action_yaml call: any response may come back *)
(* for a request.  The runtime keeps a call going: a request that was sent *)
(* comes back and a sleep ends.                                            *)
(***************************************************************************)
InitRetry ==
    /\ ExecIdle
    /\ BuildIdle
    /\ WriteIdle
    /\ CacheIdle
    /\ ParseIdle
    /\ GenIdle
    /\ WatchIdle
    /\ RefIdle
    /\ RebuildIdle
    /\ StepsIdle
    /\ now = 0
    /\ r_pc = "send"
    /\ r_url = 1
    /\ r_retries = 0
    /\ r_delay = 0
    /\ r_log = <<>>
    /\ r_rets = [u \in Urls |-> NotReturned]

NextRetry ==
    \/ \E response \in Responses : Send(response)
    \/ Sleep

SpecRetry == InitRetry /\ [][NextRetry]_vars /\ WF_vars(NextRetry)

(***************************************************************************)
(* Properties of execute_js.                                               *)
(***************************************************************************)
\* the BuildOutput the host is expected to record for one invocation
ExpectedOutput(c) ==
    [id |-> c.id, json |-> c.json,
     output_type |-> IF c.kind = NoKind THEN "workflow" ELSE c.kind]

ExpectedOutputs == [i \in 1..Len(calls) |-> ExpectedOutput(calls[i])]

\* C1: the list execute_js returns has exactly one BuildOutput per
\* __gha_build invocation made during evaluation, in invocation order, with
\* the id and JSON text passed and output_type the passed kind, "workflow"
\* when the kind was omitted; the collection holds the same while the script
\* is being evaluated.
C1_OneOutputPerInvocation ==
    /\ epc \in {"eval", "drop", "extract"} => outputs = ExpectedOutputs
    /\ eresult.status = "ok" => eresult.list = ExpectedOutputs

C1_Witness ==
    /\ eresult.status = "ok"
    /\ Len(eresult.list) = 2
    /\ calls[1].kind = NoKind
    /\ calls[2].kind = "action"
    /\ calls[1].id # calls[2].id

\* C2: execute_js returns Ok(list) only when the context and the runtime
\* are dropped and no handle of the collection other than the host's was
\* left; when another holder is left at extraction it returns an error
\* that carries no list.
C2_SoleOwnerHandoff ==
    /\ eresult.status = "ok" => ~ctx_alive /\ ~rt_alive /\ holders = 0
    /\ epc = "done" /\ holders > 0 => eresult.status = "err" /\ eresult.list = <<>>
    /\ epc # "done" => eresult.status = "none"

C2_Witness ==
    /\ epc = "done"
    /\ holders > 0
    /\ eresult.status = "err"
    /\ Len(calls) > 0

(***************************************************************************)
(* Properties of the compilation driver.                                   *)
(***************************************************************************)
\* the top-level keys of the document of a JSON text
TopLevelKeys(json) ==
    LET doc == JsonFromStr(json)
    IN {doc.entries[i][1] : i \in 1..Len(doc.entries)}

IsMappingDoc(json) == JsonFromStr(json).ok /\ JsonFromStr(json).kind = "object"

\* C3: in build_workflow the fallback runs iff generated/index.js is absent,
\* or the sandbox returned an error, or it returned no artifact; when the
\* sandbox returned at least one artifact the fallback is not run and the
\* artifacts the loop works on are exactly the sandbox's.
C3_FallbackIffNoSandboxArtifacts ==
    bw.decided =>
        /\ bw.fallback <=> \/ ~runtime_js_exists
                           \/ bw.sandbox.status = "err"
                           \/ bw.sandbox.status = "ok" /\ bw.sandbox.list = <<>>
        /\ runtime_js_exists /\ bw.sandbox.status = "ok" /\ bw.sandbox.list # <<>>
             => /\ ~bw.fallback
                /\ build_outputs = bw.sandbox.list
                /\ \A k \in 1..Len(alog) : alog[k].json = bw.sandbox.list[alog[k].idx].json

C3_Witness ==
    /\ bw.decided
    /\ ~bw.fallback
    /\ Len(bw.sandbox.list) = 2
    /\ Len(alog) = 2
    /\ bpc = "returned"

\* an artifact that converts and, if of kind workflow, has 'on' and 'jobs'
ArtifactValid(bo) ==
    /\ JsonFromStr(bo.json).ok
    /\ bo.output_type = "workflow" =>
          IsMappingDoc(bo.json) /\ {"on", "jobs"} \subseteq TopLevelKeys(bo.json)

\* C4: when build_workflow has returned, every artifact of the file that
\* does not itself fail validation was converted, validated and written or
\* skipped, also when another artifact of the file failed validation.
C4_OtherArtifactsStillProcessed ==
    bpc = "returned" /\ bw.decided =>
        \A i \in 1..Len(build_outputs) :
            ArtifactValid(build_outputs[i]) =>
                \E k \in 1..Len(alog) : alog[k].idx = i /\ alog[k].did # "aborted"

\* C5: a workflow-kind artifact passes validation iff its document is a
\* mapping that has the key 'on' and the key 'jobs'; a failure names the
\* missing key or says the document is not a mapping; an action-kind
\* artifact is not validated.
C5_ValidationOnAndJobs ==
    \A k \in 1..Len(alog) :
        LET e == alog[k]
            keys == TopLevelKeys(e.json)
        IN JsonFromStr(e.json).ok =>
            /\ e.kind = "action" => e.verdict = "exempt"
            /\ e.kind = "workflow" =>
                /\ e.verdict = "ok" <=>
                      IsMappingDoc(e.json) /\ "on" \in keys /\ "jobs" \in keys
                /\ ~IsMappingDoc(e.json) => e.verdict = "Workflow must be a YAML mapping"
                /\ IsMappingDoc(e.json) /\ "on" \notin keys
                      => e.verdict = "Workflow missing required 'on' field"
                /\ IsMappingDoc(e.json) /\ "on" \in keys /\ "jobs" \notin keys
                      => e.verdict = "Workflow missing required 'jobs' field"

C5_Witness ==
    /\ Len(alog) = 2
    /\ alog[1].kind = "action"
    /\ "on" \notin TopLevelKeys(alog[1].json)
    /\ alog[1].did # "aborted"
    /\ alog[2].kind = "workflow"
    /\ alog[2].verdict = "Workflow missing required 'jobs' field"

\* C9: a run of the build command that built files exits non-zero iff the
\* build of at least one source file failed.
C9_ExitNonZeroIffFileFailed ==
    bpc = "exited" /\ wlog # <<>> =>
        (exit_code # 0 <=> \E i \in 1..Len(wlog) : ~wlog[i].ok)

\* the paths of the successful calls of a log of build_workflow calls
RECURSIVE OkPaths(_)
OkPaths(log) ==
    IF log = <<>> THEN <<>>
    ELSE (IF Head(log).ok THEN Head(log).paths ELSE <<>>) \o OkPaths(Tail(log))

\* C10: build_all builds every file of the directory, whatever the result
\* of the files before it, and returns the output paths of the files that
\* built successfully.
C10_BatchContinuesAfterFailure ==
    /\ bpc \in {"file", "sandbox", "artifacts", "returned"} =>
          /\ Len(wlog) = fidx - 1
          /\ \A i \in 1..Len(wlog) : wlog[i].file = workflow_files[i]
    /\ bpc = "exited" /\ exit_code = 0 =>
          /\ [i \in 1..Len(wlog) |-> wlog[i].file] = workflow_files
          /\ built_files = OkPaths(wlog)

C10_Witness ==
    /\ bpc = "exited"
    /\ Len(wlog) = 2
    /\ ~wlog[1].ok
    /\ wlog[2].ok
    /\ built_files # <<>>

(***************************************************************************)
(* Properties of the change check.                                         *)
(***************************************************************************)
\* a text with every "\r\n" replaced by "\n"
RECURSIVE CrLfToLf(_)
CrLfToLf(s) ==
    IF s = <<>> THEN <<>>
    ELSE IF Len(s) >= 2 /\ s[1] = "\r" /\ s[2] = "\n"
    THEN <<"\n">> \o CrLfToLf(SubSeq(s, 3, Len(s)))
    ELSE <<s[1]>> \o CrLfToLf(Tail(s))

\* the file is left alone when the check returns false, and holds header
\* and new text when it returns true
WriteFollowsCheck ==
    /\ ~w_ret => w_file = w_old
    /\ w_ret => w_file = [exists |-> TRUE, text |-> Header("ci.ts", now) \o w_new]

\* C8 as stated: for an existing file with a generated header the check
\* returns false iff the text after the header equals the new text, both
\* trimmed; for a missing file it returns true; the file is rewritten iff
\* the check returns true.
C8_SkipIffBodyEqual ==
    wpc = "done" /\ (w_hdr \/ ~w_old.exists) =>
        /\ ~w_ret <=> w_old.exists /\ Trim(w_body) = Trim(w_new)
        /\ WriteFollowsCheck

\* C8 amended: the text after the header is compared line by line, so a
\* "\r\n" in it counts as the "\n" of the new text.
C8_SkipIffBodyLinesEqual ==
    wpc = "done" /\ (w_hdr \/ ~w_old.exists) =>
        /\ ~w_ret <=> w_old.exists /\ Trim(CrLfToLf(w_body)) = Trim(w_new)
        /\ WriteFollowsCheck

C8_Witness ==
    /\ wpc = "done"
    /\ w_hdr
    /\ ~w_ret
    /\ Len(w_new) = 3
    /\ w_body # w_new
    /\ w_file = w_old

(***************************************************************************)
(* Properties of the cache.                                                *)
(***************************************************************************)
\* C6: as long as a handle is the only writer and nothing is removed or
\* cleared, the cache file has an entry for every reference the handle
\* loaded and for every reference passed to its set.
C6_SetKeepsAllEntries ==
    \A h \in Handles :
        cache[h].status = "loaded" /\ cghost[h].exclusive /\ cghost[h].sets # {} =>
            /\ cache_file.state = "valid"
            /\ \A r \in cghost[h].base \cup cghost[h].sets :
                  cache_file.data.entries[r].present

\* C7: after set(ref, metadata, text) on a handle, get(ref) on that handle
\* returns metadata, should_regenerate(ref, hash(text)) is false, and the
\* cache file holds the table of the handle.
C7_SetStoresEntry ==
    \A h \in Handles :
        clast[h].valid =>
            /\ Get(h, clast[h].ref) = clast[h].metadata
            /\ ~ShouldRegenerate(h, clast[h].ref, CalculateHash(clast[h].yaml))
            /\ cghost[h].exclusive => cache_file.data = cache[h].data

\* C11: load_or_create never returns an error, and from a cache file that
\* is missing, unreadable or malformed it yields a cache with no entries and
\* the version of a freshly created cache.
C11_LoadNeverFails ==
    \A h \in Handles :
        /\ cache[h].status # "error"
        /\ cache[h].status = "loaded"
             /\ cghost[h].from \in {"missing", "unreadable", "malformed"} =>
               cache[h].data = NewCacheData

\* the entry the handle of the last query has for the reference asked about
AskedEntry == cache[cret.h].data.entries[cret.ref]

C13_RegenerateIffNewOrChanged ==
    cret.op = "should_regenerate" =>
        (cret.ret <=>
            \/ ~AskedEntry.present
            \/ AskedEntry.content_hash # cret.arg)

C13_Witness ==
    /\ cret.op = "should_regenerate"
    /\ AskedEntry.present
    /\ AskedEntry.content_hash = cret.arg
    /\ ~cret.ret
    /\ cghost[cret.h].from = "valid"

(***************************************************************************)
(* Properties of the reference extractor.                                  *)
(***************************************************************************)
\* the node is a getAction call with the string literal ref as its first
\* argument
IsGetAction(n, ref) ==
    /\ n.kind = "CallExpression"
    /\ n.kids[1] = Identifier("getAction")
    /\ Len(n.kids) >= 2
    /\ n.kids[2] = StringLiteral(ref)

\* such a call is the node or lies below it, however deep
RECURSIVE Holds(_, _)
Holds(n, ref) ==
    \/ IsGetAction(n, ref)
    \/ \E i \in 1..Len(n.kids) : Holds(n.kids[i], ref)

\* C14: the set extract_action_refs returns for a script contains the
\* reference of every getAction("<ref>") call nested in call arguments,
\* arrays, object literal values, arrow or function bodies, awaits, chains
\* and sequences, at any depth (a set holds it once).
C14_NestedRefsExtracted ==
    ppc = "done" =>
        \A r \in Refs :
            (\E i \in 1..Len(program) : Holds(program[i], r)) => r \in action_refs

(***************************************************************************)
(* Properties of the generator.                                            *)
(***************************************************************************)
\* C15: a generation run with the same references and the same metadata
\* as the run before leaves every file of the output directory (the
\* declaration of each reference, index.d.ts, index.js) with the text it
\* had after the run before, whatever the order in which the maps of the
\* metadata are visited and the fetch results arrive.
C15_RegenerationByteIdentical ==
    gpc = "done" /\ g_run >= 2 =>
        \A p \in GenPaths : gen_dir[p] = g_prev[p]

\* the text declares the interface <interface_name>Outputs
DefinesOutputs(text, interface_name) ==
    LET head == <<"export interface ">> \o interface_name \o <<"Outputs {\n">>
    IN \E i \in 1..Len(text) :
          /\ i + Len(head) - 1 <= Len(text)
          /\ SubSeq(text, i, i + Len(head) - 1) = head

\* the names of the string fields the text declares
DeclaredFields(text) ==
    {IF text[j - 1] = "'" THEN text[j - 2] ELSE text[j - 1] :
        j \in {k \in 2..Len(text) : text[k] = ": string;\n"}}

\* the elements of a sequence
Elements(seq) == {seq[i] : i \in DOMAIN seq}

\* C16: after a generation run, for every reference the run processed, the
\* declaration file of the reference defines <Interface>Outputs iff
\* has_outputs is true iff index.js has a __action_outputs entry for the
\* reference, and the fields of that interface are the names of the entry.
C16_DeclarationAgreesWithRegistry ==
    gpc = "done" =>
        \A k \in DOMAIN action_infos :
            LET info == action_infos[k]
                decl == gen_dir[ActionRefToFilename(info.action_ref)].text
                entry == ActionOutputs(gen_dir[IndexJsPath].text, info.action_ref)
            IN /\ DefinesOutputs(decl, info.interface_name) <=> info.has_outputs
               /\ info.has_outputs <=> entry.defined
               /\ DeclaredFields(decl) = Elements(entry.names)

\* the output names registered for a reference: those of its metadata when
\* the last run generated the reference
Registered(ref) ==
    IF \E k \in DOMAIN action_infos : action_infos[k].action_ref = ref
    THEN MapKeys(MetadataOf(ref).outputs)
    ELSE {}

\* the step has, for every output name registered for its reference, the
\* expression of that output of the step with the id
HasOutputExpressions(id) ==
    \A n \in Registered(step.ref) :
        /\ n \in DOMAIN step.built.outputs
        /\ step.built.outputs[n] = <<"${{ steps.", id, ".outputs.", n, " }}">>

ArrivedInWindow(e) == e.last.some /\ e.sent - e.last.at < DEBOUNCE_DURATION

\* C18: an event that arrives less than 300 ms after the last processed
\* event is dropped, never handled later, and an event that arrives 300 ms
\* or more after it is considered for handling
C18_DroppedIffArrivedInWindow ==
    \A i \in DOMAIN event_log :
        event_log[i].ok =>
            (ArrivedInWindow(event_log[i]) <=> event_log[i].verdict = "dropped")

\* C19: at most one handle_event run is in flight; while one is in flight
\* the loop takes no result from the channel, and the run ends only by
\* returning
C19_OneHandlerInFlight ==
    [][/\ in_flight <= 1
       /\ in_flight' <= 1
       /\ in_flight = 1 =>
             /\ rx' = rx \/ (Len(rx') = Len(rx) + 1 /\ SubSeq(rx', 1, Len(rx)) = rx)
             /\ Len(event_log') = Len(event_log)
             /\ \A i \in DOMAIN event_log :
                   event_log[i].verdict = "handling" =>
                       /\ event_log'[i].verdict \in {"handling", "handled", "failed"}
                       /\ event_log'[i].verdict = "handling" <=> in_flight' = 1]_vars

\* a result sent after the handler was entered waits in the channel while
\* the run is in flight, an earlier run having returned
C19_Witness ==
    /\ in_flight = 1
    /\ rx # <<>>
    /\ \E i \in DOMAIN event_log : event_log[i].verdict \in {"handled", "failed"}
    /\ \E i \in DOMAIN event_log :
          event_log[i].verdict = "handling" /\ rx[1].sent > event_log[i].at

(***************************************************************************)
(* Properties of ActionRef::parse.                                         *)
(***************************************************************************)
\* the position of the last c in str, 0 for none
RFind(str, c) ==
    IF \E i \in DOMAIN str : str[i] = c
    THEN CHOOSE i \in DOMAIN str : str[i] = c /\ \A j \in (i + 1)..Len(str) : str[j] # c
    ELSE 0

\* str cut at its last c: the text after it, then the text before it
RSplitN2(str, c) ==
    IF RFind(str, c) = 0 THEN <<str>>
    ELSE <<SubSeq(str, RFind(str, c) + 1, Len(str)), SubSeq(str, 1, RFind(str, c) - 1)>>

\* C20: parse splits the reference at the last '@': it succeeds iff an '@'
\* is present and the text before the last '@' has at least two
\* '/'-separated segments, and then ref_ is the text after the last '@'
C20_SplitsAtLastAt ==
    apc = "done" =>
        LET parts == RSplitN2(a_ref, "@")
        IN /\ a_parsed.status = "ok" <=>
                 (Len(parts) = 2 /\ Len(Split(parts[2], "/")) >= 2)
           /\ a_parsed.status = "ok" => a_parsed.ref_ = parts[1]

(***************************************************************************)
(* Properties of generate_types_for_refs under failures.                   *)
(***************************************************************************)
\* the text holds the tokens of pat in a row
Occurs(pat, text) ==
    \E i \in 1..Len(text) :
        /\ i + Len(pat) - 1 <= Len(text)
        /\ SubSeq(text, i, i + Len(pat) - 1) = pat

\* index.d.ts declares a getAction overload for the reference
HasOverload(ref) ==
    Occurs(<<"export declare function getAction(\n    ref: '">> \o ref,
           gen_dir[IndexDtsPath].text)

\* a file of the output directory is the declaration generated from the
\* reference
HasDeclaration(ref) ==
    \E p \in GenPaths :
        /\ gen_dir[p].exists
        /\ Occurs(<<"// Auto-generated from ">> \o ref
                    \o <<"\n// Do not edit manually\n\n">>, gen_dir[p].text)

C22_ArtifactIdsUnique ==
    /\ \A i, j \in DOMAIN build_outputs :
          i # j => build_outputs[i].id # build_outputs[j].id
    /\ \A i, j \in DOMAIN output_paths :
          i # j => output_paths[i] # output_paths[j]

\* execute_js has returned from a script that raised after it had emitted
\* artifacts
ThrewAfterEmit ==
    /\ epc = "done"
    /\ calls # <<>>
    /\ script # <<>>
    /\ Head(script).op = "throw"

\* C23: when the script raises after emitting artifacts, execute_js returns
\* an error without artifacts; build_workflow then takes the fallback, holds
\* no artifact but the fallback's (named after the file stem) and writes no
\* path but that artifact's; if the fallback fails too, build_workflow
\* returns an error with nothing written for the file
C23_ThrowDiscardsEmitted ==
    ThrewAfterEmit =>
        /\ eresult.status = "err"
        /\ eresult.list = <<>>
        /\ bw.decided =>
              /\ bw.fallback
              /\ Len(build_outputs) <= 1
              /\ \A i \in DOMAIN build_outputs :
                    /\ build_outputs[i].id = FileStem(bw.file)
                    /\ build_outputs[i].output_type = "workflow"
                    /\ build_outputs[i].json \in NpxJson
              /\ \A i \in DOMAIN alog : alog[i].path = WorkflowPath(FileStem(bw.file))
              /\ build_outputs = <<>> =>
                    /\ bpc # "artifacts"
                    /\ alog = <<>>
                    /\ output_paths = <<>>
                    /\ wresult.status = "err" \/ bpc \in {"file", "exited"}

\* the script raised after emitting, and the fallback's artifact was written
C23_Witness ==
    /\ ThrewAfterEmit
    /\ bw.decided
    /\ build_outputs # <<>>
    /\ \E i \in DOMAIN alog : alog[i].did = "wrote"

\* the script raised after emitting, and the fallback failed too
C23_WitnessFallbackFailed ==
    /\ ThrewAfterEmit
    /\ bw.decided
    /\ build_outputs = <<>>
    /\ wresult.status = "err"

(***************************************************************************)
(* Properties of building again.                                           *)
(***************************************************************************)
\* the build command has exited a second time, having built, both times,
\* the same artifacts from the file
BuiltTwiceUnchanged ==
    /\ bpc = "exited"
    /\ b_run >= 1
    /\ b_ok
    /\ exit_code = 0
    /\ wresult.status = "ok"
    /\ build_outputs # <<>>
    /\ build_outputs = b_outs

\* C24: when the same source is built a second time and its artifacts are
\* those of the first build, every output file, the timestamp of its header
\* included, is left as the first build wrote it
C24_RebuildLeavesFilesUnchanged ==
    BuiltTwiceUnchanged => disk = b_prev

\* the other handle g was loaded with the table of h and its one call of set,
\* for another reference, was the last thing it did
OtherSetBefore(h, g, action_ref) ==
    /\ g # h
    /\ cache[g].status = "loaded"
    /\ cache[g].data = cache[h].data
    /\ clast[g].valid
    /\ clast[g].ref # action_ref
    /\ cghost[g].sets = {clast[g].ref}

\* C25: when two handles hold the table loaded from the same file and each
\* calls set for a different reference, the file after the second call is
\* the second writer's loaded table with the second writer's entry: every
\* other reference, the first writer's included, has the entry of the loaded
\* table, so the first writer's entry is lost.
C25_LastWriterWins ==
    [][\A h, g \in Handles : \A r \in Refs : \A f \in Fetched :
          (OtherSetBefore(h, g, r) /\ Set(h, r, f))
              => /\ cache_file'.state = "valid"
                 /\ cache_file'.data.version = cache[h].data.version
                 /\ cache_file'.data.entries[r] =
                        [present |-> TRUE,
                         content_hash |-> CalculateHash(f.yaml),
                         generated_at |-> now,
                         metadata |-> f.metadata]
                 /\ \A o \in Refs \ {r} :
                        cache_file'.data.entries[o] = cache[h].data.entries[o]]_vars

\* both handles loaded an empty table, each has set one reference, and the
\* file holds the entry of one of them only
C25_Witness ==
    /\ \A h \in Handles : cache[h].status = "loaded" /\ clast[h].valid
    /\ cache[1].data = cache[2].data
    /\ cghost[1].sets = {clast[1].ref}
    /\ cghost[2].sets = {clast[2].ref}
    /\ clast[1].ref # clast[2].ref
    /\ ~cache[1].data.entries[clast[1].ref].present
    /\ ~cache[1].data.entries[clast[2].ref].present
    /\ cache_file.state = "valid"
    /\ Cardinality({r \in Refs : cache_file.data.entries[r].present}) = 1

(***************************************************************************)
(* Properties of the step builder.                                         *)
(***************************************************************************)
\* the context that holds, under each step id, the outputs of the latest of
\* the given steps that has this id and has outputs
ContextOf(steps) ==
    [i \in StepIds |->
        LET with == {k \in 1..Len(steps) : steps[k].id = i /\ steps[k].outputs.defined}
        IN IF with = {} THEN NoCtxEntry
           ELSE [present |-> TRUE,
                 entries |-> steps[CHOOSE k \in with : \A m \in with : m <= k].outputs.entries]]

ResponsesOf(u) ==
    LET OfUrl(e) == e.url = u
        sent == SelectSeq(r_log, OfUrl)
    IN [i \in 1..Len(sent) |-> sent[i].response]

\* C27: fetch_with_retry terminates: for one URL at most 1 + MAX_RETRIES = 4
\* requests are sent, a request is followed by another one for the same URL
\* only after a 429 or an error of send, the call has returned as soon as a
\* success, a 404 or another status came back, and the whole call comes to
\* its end.
C27_FetchWithRetryTerminates ==
    /\ [](\A u \in Urls :
            LET got == ResponsesOf(u)
            IN /\ Len(got) <= 4
               /\ \A i \in 1..(Len(got) - 1) :
                     got[i] \in {"too_many_requests", "send_error"}
               /\ (got # <<>> /\ got[Len(got)] \notin {"too_many_requests", "send_error"})
                     => r_rets[u] = Returned(got[Len(got)])
               /\ r_rets[u].status # "none"
                     => /\ got # <<>>
                        /\ (got[Len(got)] \in {"too_many_requests", "send_error"}
                               => Len(got) = 4))
    /\ <>(r_pc = "done")

\* the call for action.yml gave up after four requests and the call for
\* action.yaml returned the text after one retry
C27_Witness ==
    /\ r_pc = "done"
    /\ Len(ResponsesOf(1)) = 4
    /\ r_rets[1].status = "err"
    /\ ResponsesOf(2) = <<"send_error", "ok">>
    /\ r_rets[2].status = "ok"

(***************************************************************************)
(* Properties of the watch loop after a rejected event.                    *)
(***************************************************************************)
\* the loop entered handle_event for the result of this entry
WasHandled(e) == e.verdict \in {"handling", "handled", "failed"}

\* the loop takes a qualifying event less than 300 ms after it took an event
\* that should_process_event rejected and at least 300 ms after it took the
\* last event it handled
TakesAfterRejected ==
    /\ kpc = "recv"
    /\ rx # <<>>
    /\ rx' = Tail(rx)
    /\ Head(rx).ok
    /\ ShouldProcessEvent(Head(rx))
    /\ \E j \in DOMAIN event_log :
          event_log[j].verdict = "skipped" /\ instant - event_log[j].at < 300
    /\ \A j \in DOMAIN event_log :
          WasHandled(event_log[j]) => instant - event_log[j].at >= 300

\* C28: an event that should_process_event rejects starts no debounce
\* window: a qualifying event taken less than 300 ms after it, and at least
\* 300 ms after the last handled event, is handled.
C28_RejectedStartsNoWindow ==
    [][TakesAfterRejected =>
          /\ Len(event_log') = Len(event_log) + 1
          /\ WasHandled(event_log'[Len(event_log')])]_vars

(***************************************************************************)
(* Properties of the names of one generation run.                          *)
(***************************************************************************)
\* C29: over the references of one generation run action_ref_to_filename
\* and action_ref_to_interface_name are injective: two distinct references
\* have distinct declaration file names and distinct interface names.
C29_NamesInjective ==
    \A r1, r2 \in g_refs :
        r1 # r2 => /\ ActionRefToFilename(r1) # ActionRefToFilename(r2)
                   /\ ActionRefToInterfaceName(r1) # ActionRefToInterfaceName(r2)

(***************************************************************************)
(* Properties of the extractor on exported and plain declarations.         *)
(***************************************************************************)
\* the script with its top-level function declarations exported
Exported(body) ==
    [i \in 1..Len(body) |->
        IF body[i].kind = "FunctionDeclaration" THEN ExportNamedDeclaration(body[i])
        ELSE body[i]]

\* C30: the references extracted from a script with a plain top-level
\* function declaration are the references extracted from the script with
\* the declaration exported.
C30_ExportMakesNoDifference ==
    ppc = "done" => action_refs = VisitProgram(Exported(program))

====
